---------------------------- MODULE Spec2Model ----------------------------
(***************************************************************************)
(* Model of the stateless block validator core                             *)
(* (staker/stateless_block_validator.go): the position algebra, the        *)
(* validation-entry lifecycle and the dispatch of ValidateResult.          *)
(*                                                                         *)
(* Collaborators behind interfaces (inbox tracker, streamer, recorder,     *)
(* spawners) answer with values drawn from small sets.                     *)
(***************************************************************************)
EXTENDS Integers, Sequences, FiniteSets, TLC

(***************************************************************************)
(* Bounds of the model.                                                    *)
(***************************************************************************)
\* batches an inbox tracker holds at most
MaxBatches == 3
\* highest message count a batch reports
MaxMsgs == 4
\* uint64 arithmetic is taken modulo this (a scaled-down 2^64; every value
\* of the model stays far below it, so a wrap is visible as a huge value)
UintMod == 65536

(***************************************************************************)
(* The inbox tracker (InboxTrackerInterface): counts[b+1] is the message   *)
(* count after batch b; failing holds the batches whose lookup returns an  *)
(* error.                                                                  *)
(***************************************************************************)
NonDecreasing(s) == \A i \in 1..Len(s) : \A j \in i..Len(s) : s[i] <= s[j]

CountSeqs ==
    { s \in UNION { [1..n -> 0..MaxMsgs] : n \in 0..MaxBatches } : NonDecreasing(s) }

Trackers == [counts : CountSeqs, failing : SUBSET (0..(MaxBatches - 1))]

HealthyTrackers == { t \in Trackers : t.failing = {} }

\* InboxTrackerInterface.GetBatchCount
GetBatchCount(t) == Len(t.counts)

\* InboxTrackerInterface.GetBatchMessageCount: (count, err)
GetBatchMessageCount(t, seqNum) ==
    IF seqNum \in 0..(Len(t.counts) - 1) /\ seqNum \notin t.failing
    THEN [count |-> t.counts[seqNum + 1], err |-> FALSE]
    ELSE [count |-> 0, err |-> TRUE]

\* first message index of batch b according to the stored counts
FirstInBatch(t, b) == IF b = 0 THEN 0 ELSE t.counts[b]

\* the batches that contain message index pos according to the stored counts
ContainingBatches(t, pos) ==
    { b \in 0..(Len(t.counts) - 1) :
        FirstInBatch(t, b) <= pos /\ pos < t.counts[b + 1] }

\* InboxTrackerInterface.FindInboxBatchContainingMessage: the answers
\* (batch, found, err) a tracker may give; the validator does not rely on the
\* batch being the right one
FindAnswers == [batch : 0..MaxBatches, found : BOOLEAN, err : BOOLEAN]

(***************************************************************************)
(* Position algebra.                                                       *)
(***************************************************************************)
GlobalStatePosition(b, p) == [BatchNumber |-> b, PosInBatch |-> p]

ZeroPosition == GlobalStatePosition(0, 0)

PosFail(e) == [start |-> ZeroPosition, end |-> ZeroPosition, err |-> e]

PosOk(s, e) == [start |-> s, end |-> e, err |-> "nil"]

\* func GlobalStatePositionsAtCount(tracker, count, batch)
GlobalStatePositionsAtCount_StartGt(t, count, batch) ==
    LET mc == GetBatchMessageCount(t, batch)
        fc == IF batch > 0 THEN GetBatchMessageCount(t, batch - 1)
                           ELSE [count |-> 0, err |-> FALSE]
        posInBatch == (count - fc.count - 1) % UintMod
    IN  IF mc.err \/ fc.err THEN PosFail("lookup")
        ELSE IF mc.count < count THEN PosFail("batch has msgCount")
        ELSE IF fc.count > count THEN PosFail("batch starts from")
        ELSE IF mc.count = count
             THEN PosOk(GlobalStatePosition(batch, posInBatch),
                        GlobalStatePosition((batch + 1) % UintMod, 0))
             ELSE PosOk(GlobalStatePosition(batch, posInBatch),
                        GlobalStatePosition(batch, (posInBatch + 1) % UintMod))

GlobalStatePositionsAtCount_NoMinusOne(t, count, batch) ==
    LET mc == GetBatchMessageCount(t, batch)
        fc == IF batch > 0 THEN GetBatchMessageCount(t, batch - 1)
                           ELSE [count |-> 0, err |-> FALSE]
        posInBatch == (count - fc.count) % UintMod
    IN  IF mc.err \/ fc.err THEN PosFail("lookup")
        ELSE IF mc.count < count THEN PosFail("batch has msgCount")
        ELSE IF fc.count >= count THEN PosFail("batch starts from")
        ELSE IF mc.count = count
             THEN PosOk(GlobalStatePosition(batch, posInBatch),
                        GlobalStatePosition((batch + 1) % UintMod, 0))
             ELSE PosOk(GlobalStatePosition(batch, posInBatch),
                        GlobalStatePosition(batch, (posInBatch + 1) % UintMod))

GlobalStatePositionsAtCount_RollAlways(t, count, batch) ==
    LET mc == GetBatchMessageCount(t, batch)
        fc == IF batch > 0 THEN GetBatchMessageCount(t, batch - 1)
                           ELSE [count |-> 0, err |-> FALSE]
        posInBatch == (count - fc.count - 1) % UintMod
    IN  IF mc.err \/ fc.err THEN PosFail("lookup")
        ELSE IF mc.count < count THEN PosFail("batch has msgCount")
        ELSE IF fc.count >= count THEN PosFail("batch starts from")
        ELSE PosOk(GlobalStatePosition(batch, posInBatch),
                   GlobalStatePosition((batch + 1) % UintMod, 0))

GlobalStatePositionsAtCount(t, count, batch) ==
    LET mc == GetBatchMessageCount(t, batch)
    IN  IF mc.err THEN PosFail("lookup")
        ELSE LET fc == IF batch > 0 THEN GetBatchMessageCount(t, batch - 1)
                                    ELSE [count |-> 0, err |-> FALSE]
             IN  IF fc.err THEN PosFail("lookup")
                 ELSE IF mc.count < count THEN PosFail("batch has msgCount")
                 ELSE IF fc.count >= count THEN PosFail("batch starts from")
                 ELSE LET posInBatch == (count - fc.count - 1) % UintMod
                          startPos == GlobalStatePosition(batch, posInBatch)
                      IN  IF mc.count = count
                          THEN PosOk(startPos,
                                     GlobalStatePosition((batch + 1) % UintMod, 0))
                          ELSE PosOk(startPos,
                                     GlobalStatePosition(batch, (posInBatch + 1) % UintMod))

\* func (v *StatelessBlockValidator) GlobalStatePositionsAtCount(count); find
\* is the tracker's answer to FindInboxBatchContainingMessage(count - 1)
ValidatorGlobalStatePositionsAtCount_PrevCount(t, count, find) ==
    IF count = 0 THEN PosFail("no initial state for count==0")
    ELSE IF count = 1 THEN PosOk(ZeroPosition, GlobalStatePosition(1, 0))
    ELSE IF find.err THEN PosFail("find")
    ELSE IF ~find.found THEN PosFail("batch not found on L1 yet")
    ELSE GlobalStatePositionsAtCount(t, count - 1, find.batch)

ValidatorGlobalStatePositionsAtCount_NoBootstrap(t, count, find) ==
    IF count = 0 THEN PosFail("no initial state for count==0")
    ELSE IF find.err THEN PosFail("find")
    ELSE IF ~find.found THEN PosFail("batch not found on L1 yet")
    ELSE GlobalStatePositionsAtCount(t, count, find.batch)

ValidatorGlobalStatePositionsAtCount(t, count, find) ==
    IF count = 0 THEN PosFail("no initial state for count==0")
    ELSE IF count = 1 THEN PosOk(ZeroPosition, GlobalStatePosition(1, 0))
    ELSE IF find.err THEN PosFail("find")
    ELSE IF ~find.found THEN PosFail("batch not found on L1 yet")
    ELSE GlobalStatePositionsAtCount(t, count, find.batch)

\* the calls v.GlobalStatePositionsAtCount(count) makes, in order: the
\* tracker's FindInboxBatchContainingMessage and the free function
ValidatorPositionsLookups(count, find) ==
    IF count = 0 \/ count = 1 THEN <<>>
    ELSE IF find.err \/ ~find.found
    THEN <<"FindInboxBatchContainingMessage">>
    ELSE <<"FindInboxBatchContainingMessage", "GlobalStatePositionsAtCount">>

(***************************************************************************)
(* Values of the collaborators' answers.                                   *)
(***************************************************************************)
\* highest DelayedMessagesRead of a predecessor message
MaxDelayed == 0
\* execution spawners configured (the constructor refuses an empty list)
NumSpawners == 2
\* batches and message counts of the trackers a ValidateResult call runs on
CallBatches == 2
CallMsgs == 3

ZeroHash == "0x00"
Hashes == {"0xAA", "0xBB"}
\* the block hash the streamer stores for a message
StreamerHashes == {"0xBB"}
SendRoot == "0xS1"
OtherSendRoot == "0xS2"

Nil == [nil |-> TRUE]

\* execution.MessageResult
MessageResult(h, r) == [BlockHash |-> h, SendRoot |-> r]

ZeroMessageResult == MessageResult(ZeroHash, ZeroHash)

\* validator.GoGlobalState
GoGlobalState(h, r, b, p) ==
    [BlockHash |-> h, SendRoot |-> r, Batch |-> b, PosInBatch |-> p]

\* func BuildGlobalState(res, pos)
BuildGlobalState(res, pos) ==
    GoGlobalState(res.BlockHash, res.SendRoot, pos.BatchNumber, pos.PosInBatch)

\* arbostypes.MessageWithMetadata: the fields the validator reads
Messages == [DelayedMessagesRead : 0..(MaxDelayed + 2)]

\* wasm targets and compiled user code
Targets == {"arm64", "amd64"}
TargetLists == {<<>>, <<"arm64">>, <<"arm64", "amd64">>}
EmptyMap == [x \in {} |-> Nil]
\* state.UserWasms: code hash -> (target -> asm)
Asm(h, t) == <<"asm", h, t>>
UserWasmsChoices ==
    { EmptyMap,
      [h \in {"c1"} |-> [t \in {"arm64"} |-> Asm(h, t)]],
      [h \in {"c1"} |-> [t \in Targets |-> Asm(h, t)]] }
\* the same with a second program, compiled for one target or for both
EntryUserWasmsChoices ==
    UserWasmsChoices \cup
    { [h \in {"c1", "c2"} |->
         [t \in (IF h = "c1" THEN Targets ELSE ts) |-> Asm(h, t)]] :
      ts \in {{"arm64"}, Targets} }

\* daprovider.PreimagesMap: preimage type -> (hash -> bytes)
Keccak256PreimageType == "keccak256"
BatchPreimagesChoices ==
    { [ty \in {"das"} |-> [h \in {"p1"} |-> "d1"]] }
\* the recorder's preimages: hash -> bytes, or nil
RecordingPreimagesChoices == { Nil, [h \in {"p2"} |-> "d2"] }

\* func copyPreimagesInto(dest, source): the dest afterwards
copyPreimagesInto(dest, source) ==
    [ty \in (DOMAIN dest) \cup (DOMAIN source) |->
        IF ty \notin DOMAIN source THEN dest[ty]
        ELSE LET old == IF ty \in DOMAIN dest THEN dest[ty] ELSE EmptyMap
             IN  [h \in (DOMAIN old) \cup (DOMAIN source[ty]) |->
                     IF h \in DOMAIN source[ty] THEN source[ty][h] ELSE old[h]]]

(***************************************************************************)
(* The validation entry.                                                   *)
(***************************************************************************)
NilEntry == [Stage |-> "nil"]

\* validationEntry{}: the zero value, at stage Empty
EmptyEntry ==
    [Stage |-> "Empty",
     Pos |-> 0,
     Start |-> GoGlobalState(ZeroHash, ZeroHash, 0, 0),
     End |-> GoGlobalState(ZeroHash, ZeroHash, 0, 0),
     HasDelayedMsg |-> FALSE,
     DelayedMsgNr |-> 0,
     ChainConfig |-> "nil",
     msg |-> Nil,
     BatchInfo |-> <<>>,
     Preimages |-> EmptyMap,
     UserWasms |-> EmptyMap,
     DelayedMsg |-> <<>>]

\* the delayed-message counts of the direct calls: small ones and the largest
EntryDelayedCounts == {0, 1, 2, UintMod - 1}

\* validator.BatchInfo
BatchInfo(n, d) == [Number |-> n, Data |-> d]

\* FullBatchInfo
FullBatchInfo(n, d, c, p) ==
    [Number |-> n, PostedData |-> d, MsgCount |-> c, Preimages |-> p]

\* func newValidationEntry(...): (entry, err)
newValidationEntry_DelayedNrRead(pos, start, end, msg, fullBatchInfo, prevBatches, prevDelayed) ==
    IF fullBatchInfo = Nil
    THEN [entry |-> NilEntry, err |-> "fullbatchInfo cannot be nil"]
    ELSE IF fullBatchInfo.Number # start.Batch
    THEN [entry |-> NilEntry, err |-> "got wrong batch"]
    ELSE IF msg.DelayedMessagesRead # (prevDelayed + 1) % UintMod
            /\ msg.DelayedMessagesRead # prevDelayed
    THEN [entry |-> NilEntry, err |-> "illegal validation entry delayedMessage"]
    ELSE LET hasDelayed == msg.DelayedMessagesRead = (prevDelayed + 1) % UintMod
         IN  [entry |->
                [Stage |-> "ReadyForRecord",
                 Pos |-> pos,
                 Start |-> start,
                 End |-> end,
                 HasDelayedMsg |-> hasDelayed,
                 DelayedMsgNr |-> IF hasDelayed THEN msg.DelayedMessagesRead ELSE 0,
                 ChainConfig |-> "chainConfig",
                 msg |-> msg,
                 BatchInfo |->
                    <<BatchInfo(fullBatchInfo.Number, fullBatchInfo.PostedData)>>
                        \o prevBatches,
                 Preimages |-> copyPreimagesInto(EmptyMap, fullBatchInfo.Preimages),
                 UserWasms |-> EmptyMap,
                 DelayedMsg |-> <<>>],
              err |-> "nil"]

newValidationEntry_NoBatchCheck(pos, start, end, msg, fullBatchInfo, prevBatches, prevDelayed) ==
    IF fullBatchInfo = Nil
    THEN [entry |-> NilEntry, err |-> "fullbatchInfo cannot be nil"]
    ELSE IF msg.DelayedMessagesRead # (prevDelayed + 1) % UintMod
            /\ msg.DelayedMessagesRead # prevDelayed
    THEN [entry |-> NilEntry, err |-> "illegal validation entry delayedMessage"]
    ELSE LET hasDelayed == msg.DelayedMessagesRead = (prevDelayed + 1) % UintMod
         IN  [entry |->
                [Stage |-> "ReadyForRecord",
                 Pos |-> pos,
                 Start |-> start,
                 End |-> end,
                 HasDelayedMsg |-> hasDelayed,
                 DelayedMsgNr |-> IF hasDelayed THEN prevDelayed ELSE 0,
                 ChainConfig |-> "chainConfig",
                 msg |-> msg,
                 BatchInfo |->
                    <<BatchInfo(fullBatchInfo.Number, fullBatchInfo.PostedData)>>
                        \o prevBatches,
                 Preimages |-> copyPreimagesInto(EmptyMap, fullBatchInfo.Preimages),
                 UserWasms |-> EmptyMap,
                 DelayedMsg |-> <<>>],
              err |-> "nil"]

newValidationEntry(pos, start, end, msg, fullBatchInfo, prevBatches, prevDelayed) ==
    IF fullBatchInfo = Nil
    THEN [entry |-> NilEntry, err |-> "fullbatchInfo cannot be nil"]
    ELSE IF fullBatchInfo.Number # start.Batch
    THEN [entry |-> NilEntry, err |-> "got wrong batch"]
    ELSE IF msg.DelayedMessagesRead # (prevDelayed + 1) % UintMod
            /\ msg.DelayedMessagesRead # prevDelayed
    THEN [entry |-> NilEntry, err |-> "illegal validation entry delayedMessage"]
    ELSE LET hasDelayed == msg.DelayedMessagesRead = (prevDelayed + 1) % UintMod
         IN  [entry |->
                [Stage |-> "ReadyForRecord",
                 Pos |-> pos,
                 Start |-> start,
                 End |-> end,
                 HasDelayedMsg |-> hasDelayed,
                 DelayedMsgNr |-> IF hasDelayed THEN prevDelayed ELSE 0,
                 ChainConfig |-> "chainConfig",
                 msg |-> msg,
                 BatchInfo |->
                    <<BatchInfo(fullBatchInfo.Number, fullBatchInfo.PostedData)>>
                        \o prevBatches,
                 Preimages |-> copyPreimagesInto(EmptyMap, fullBatchInfo.Preimages),
                 UserWasms |-> EmptyMap,
                 DelayedMsg |-> <<>>],
              err |-> "nil"]

\* func (e *validationEntry) ToInput(stylusArchs): (input, err); the part after
\* the stage check
ToInputOfEntry_SkipMissing(e, stylusArchs) ==
    LET archs == { stylusArchs[i] : i \in 1..Len(stylusArchs) }
    IN  IF Len(stylusArchs) = 0 /\ DOMAIN e.UserWasms # {}
        THEN [input |-> Nil, err |-> "stylus support is required"]
        ELSE [input |->
                [Id |-> e.Pos,
                 HasDelayedMsg |-> e.HasDelayedMsg,
                 DelayedMsgNr |-> e.DelayedMsgNr,
                 Preimages |-> e.Preimages,
                 UserWasms |->
                    [a \in archs |->
                        [h \in { x \in DOMAIN e.UserWasms : a \in DOMAIN e.UserWasms[x] }
                           |-> e.UserWasms[h][a]]],
                 BatchInfo |-> e.BatchInfo,
                 DelayedMsg |-> e.DelayedMsg,
                 StartState |-> e.Start,
                 DebugChain |-> e.ChainConfig],
              err |-> "nil"]

ToInputOfEntry(e, stylusArchs) ==
    LET archs == { stylusArchs[i] : i \in 1..Len(stylusArchs) }
    IN  IF Len(stylusArchs) = 0 /\ DOMAIN e.UserWasms # {}
        THEN [input |-> Nil, err |-> "stylus support is required"]
        ELSE IF \E h \in DOMAIN e.UserWasms : \E a \in archs :
                    a \notin DOMAIN e.UserWasms[h]
        THEN [input |-> Nil, err |-> "stylusArch not supported by block validator"]
        ELSE [input |->
                [Id |-> e.Pos,
                 HasDelayedMsg |-> e.HasDelayedMsg,
                 DelayedMsgNr |-> e.DelayedMsgNr,
                 Preimages |-> e.Preimages,
                 UserWasms |->
                    [a \in archs |->
                        [h \in DOMAIN e.UserWasms |-> e.UserWasms[h][a]]],
                 BatchInfo |-> e.BatchInfo,
                 DelayedMsg |-> e.DelayedMsg,
                 StartState |-> e.Start,
                 DebugChain |-> e.ChainConfig],
              err |-> "nil"]

ToInput_AnyStage(e, stylusArchs) == ToInputOfEntry(e, stylusArchs)

ToInput(e, stylusArchs) ==
    IF e.Stage # "Ready"
    THEN [input |-> Nil, err |-> "cannot create input from non-ready entry"]
    ELSE ToInputOfEntry(e, stylusArchs)

\* func (v *StatelessBlockValidator) ValidationEntryRecord(ctx, e): the entry
\* afterwards, the error, and which collaborators were asked.  rec is the
\* recorder's answer to RecordBlockCreation, delayed the tracker's answer to
\* GetDelayedMessageBytes for each number.
RecordFail(e, error, askedRecorder, askedDelayed) ==
    [entry |-> e, err |-> error,
     askedRecorder |-> askedRecorder, askedDelayed |-> askedDelayed]

ValidationEntryRecord_NoHashCheck(e, rec, delayed) ==
    IF e.Stage # "ReadyForRecord"
    THEN RecordFail(e, "validation entry should be ReadyForRecord", FALSE, FALSE)
    ELSE IF e.Pos # 0 /\ rec.err # "nil"
    THEN RecordFail(e, rec.err, TRUE, FALSE)
    ELSE LET e1 == IF e.Pos # 0
                   THEN [e EXCEPT !.UserWasms = rec.UserWasms]
                   ELSE e
         IN  [entry |-> [e1 EXCEPT !.msg = Nil, !.Stage = "Ready"],
              err |-> "nil", askedRecorder |-> e.Pos # 0, askedDelayed |-> FALSE]

ValidationEntryRecord_NoStageCheck(e, rec, delayed) ==
    IF e.Pos # 0 /\ rec.err # "nil"
    THEN RecordFail(e, rec.err, TRUE, FALSE)
    ELSE IF e.Pos # 0 /\ rec.BlockHash # e.End.BlockHash
    THEN RecordFail(e, "recording failed: hash", TRUE, FALSE)
    ELSE LET e1 == IF e.Pos = 0 THEN e
                   ELSE [e EXCEPT
                           !.Preimages =
                              IF rec.Preimages = Nil THEN @
                              ELSE copyPreimagesInto(@,
                                     [ty \in {Keccak256PreimageType} |-> rec.Preimages]),
                           !.UserWasms = rec.UserWasms]
         IN  IF e1.HasDelayedMsg /\ delayed[e1.DelayedMsgNr].err # "nil"
             THEN RecordFail(e1, "error while trying to read delayed msg for proving",
                             e.Pos # 0, TRUE)
             ELSE [entry |->
                      [e1 EXCEPT
                          !.DelayedMsg = IF e1.HasDelayedMsg
                                         THEN delayed[e1.DelayedMsgNr].bytes ELSE @,
                          !.msg = Nil,
                          !.Stage = "Ready"],
                   err |-> "nil",
                   askedRecorder |-> e.Pos # 0,
                   askedDelayed |-> e1.HasDelayedMsg]

ValidationEntryRecord_IgnoreFetchError(e, rec, delayed) ==
    IF e.Stage # "ReadyForRecord"
    THEN RecordFail(e, "validation entry should be ReadyForRecord", FALSE, FALSE)
    ELSE IF e.Pos # 0 /\ rec.err # "nil"
    THEN RecordFail(e, rec.err, TRUE, FALSE)
    ELSE IF e.Pos # 0 /\ rec.BlockHash # e.End.BlockHash
    THEN RecordFail(e, "recording failed: hash", TRUE, FALSE)
    ELSE LET e1 == IF e.Pos = 0 THEN e
                   ELSE [e EXCEPT
                           !.Preimages =
                              IF rec.Preimages = Nil THEN @
                              ELSE copyPreimagesInto(@,
                                     [ty \in {Keccak256PreimageType} |-> rec.Preimages]),
                           !.UserWasms = rec.UserWasms]
         IN       [entry |->
                      [e1 EXCEPT
                          !.DelayedMsg = IF e1.HasDelayedMsg
                                         THEN delayed[e1.DelayedMsgNr].bytes ELSE @,
                          !.msg = Nil,
                          !.Stage = "Ready"],
                   err |-> "nil",
                   askedRecorder |-> e.Pos # 0,
                   askedDelayed |-> e1.HasDelayedMsg]

ValidationEntryRecord(e, rec, delayed) ==
    IF e.Stage # "ReadyForRecord"
    THEN RecordFail(e, "validation entry should be ReadyForRecord", FALSE, FALSE)
    ELSE IF e.Pos # 0 /\ rec.err # "nil"
    THEN RecordFail(e, rec.err, TRUE, FALSE)
    ELSE IF e.Pos # 0 /\ rec.BlockHash # e.End.BlockHash
    THEN RecordFail(e, "recording failed: hash", TRUE, FALSE)
    ELSE LET e1 == IF e.Pos = 0 THEN e
                   ELSE [e EXCEPT
                           !.Preimages =
                              IF rec.Preimages = Nil THEN @
                              ELSE copyPreimagesInto(@,
                                     [ty \in {Keccak256PreimageType} |-> rec.Preimages]),
                           !.UserWasms = rec.UserWasms]
         IN  IF e1.HasDelayedMsg /\ delayed[e1.DelayedMsgNr].err # "nil"
             THEN RecordFail(e1, "error while trying to read delayed msg for proving",
                             e.Pos # 0, TRUE)
             ELSE [entry |->
                      [e1 EXCEPT
                          !.DelayedMsg = IF e1.HasDelayedMsg
                                         THEN delayed[e1.DelayedMsgNr].bytes ELSE @,
                          !.msg = Nil,
                          !.Stage = "Ready"],
                   err |-> "nil",
                   askedRecorder |-> e.Pos # 0,
                   askedDelayed |-> e1.HasDelayedMsg]

(***************************************************************************)
(* Batch assembly.                                                         *)
(***************************************************************************)
\* the payload the inbox reader holds for a batch
PostedData(batchNum) == <<"batch", batchNum>>

\* what the message asks for through PastBatchesRequired
PastBatchesChoices == {<<>>, <<1>>}

\* func (v *StatelessBlockValidator) readFullBatch(ctx, batchNum):
\* (found, fullBatchInfo, err).  ans is what the inbox reader and the
\* data-availability readers answered: [err, preimages].
readFullBatch(t, batchNum, ans) ==
    IF GetBatchCount(t) <= batchNum
    THEN [found |-> FALSE, info |-> Nil, err |-> "nil"]
    ELSE IF GetBatchMessageCount(t, batchNum).err
    THEN [found |-> FALSE, info |-> Nil, err |-> "lookup"]
    ELSE IF ans.err # "nil"
    THEN [found |-> FALSE, info |-> Nil, err |-> ans.err]
    ELSE [found |-> TRUE,
          info |-> FullBatchInfo(batchNum, PostedData(batchNum),
                                 GetBatchMessageCount(t, batchNum).count,
                                 ans.preimages),
          err |-> "nil"]

\* func (v *StatelessBlockValidator) readPostedBatch(ctx, batchNum): (data, err)
readPostedBatch(t, batchNum) ==
    IF GetBatchCount(t) <= batchNum
    THEN [data |-> Nil, err |-> "batch not found"]
    ELSE [data |-> PostedData(batchNum), err |-> "nil"]

(***************************************************************************)
(* Dispatch and await of ValidateResult.                                   *)
(***************************************************************************)
\* the backends: the Redis validator and execSpawners[1..NumSpawners]
Redis == 0
NoRun == -1
Spawners == 1..NumSpawners
Backends == {Redis} \cup Spawners

Event(op, backend) == [op |-> op, backend |-> backend]

\* (agreed, observedEnd, err) of ValidateResult
Return(agreed, gs, err) == [agreed |-> agreed, gs |-> gs, err |-> err]

NoReturn == [agreed |-> FALSE, gs |-> Nil, err |-> "pending"]

\* ValidateResult from the entry to the launch (lines 505-531): the run
\* launched, the error, and the calls made on the backends.  sup holds the
\* backends whose SpawnerSupportsModule(backend, moduleRoot) is true, archs
\* each backend's StylusArchs().
DispatchResult(run, err, archsUsed, calls) ==
    [run |-> run, err |-> err, archs |-> archsUsed, calls |-> calls]

LaunchOn(e, backend, archs) ==
    LET in == ToInput(e, archs[backend])
    IN  IF in.err # "nil"
        THEN DispatchResult(NoRun, in.err, archs[backend],
                            <<Event("ToInput", backend)>>)
        ELSE DispatchResult(backend, "nil", archs[backend],
                            <<Event("ToInput", backend), Event("Launch", backend)>>)

ValidateResultDispatch_RedisAlways(e, useExec, redisConfigured, sup, archs) ==
    IF redisConfigured /\ Redis \in sup
    THEN LaunchOn(e, Redis, archs)
    ELSE IF sup \cap Spawners # {}
    THEN LaunchOn(e, CHOOSE i \in sup \cap Spawners :
                        \A j \in sup \cap Spawners : i <= j, archs)
    ELSE DispatchResult(NoRun, "not supported by node", <<>>, <<>>)

ValidateResultDispatch(e, useExec, redisConfigured, sup, archs) ==
    IF ~useExec /\ redisConfigured /\ Redis \in sup
    THEN LaunchOn(e, Redis, archs)
    ELSE IF sup \cap Spawners # {}
    THEN LaunchOn(e, CHOOSE i \in sup \cap Spawners :
                        \A j \in sup \cap Spawners : i <= j, archs)
    ELSE DispatchResult(NoRun, "not supported by node", <<>>, <<>>)

\* ValidateResult from the deferred Cancel to the return (lines 532-537): the
\* return value and the calls made on the run
ValidateResultAwait_HashOnly(e, run, gsEnd, err) ==
    [ret |-> IF err # "nil" \/ gsEnd.BlockHash # e.End.BlockHash
             THEN Return(FALSE, gsEnd, err)
             ELSE Return(TRUE, e.End, "nil"),
     calls |-> <<Event("Await", run), Event("Cancel", run)>>]

ValidateResultAwait_CancelOnSuccess(e, run, gsEnd, err) ==
    [ret |-> IF err # "nil" \/ gsEnd # e.End
             THEN Return(FALSE, gsEnd, err)
             ELSE Return(TRUE, e.End, "nil"),
     calls |-> IF err # "nil" THEN <<Event("Await", run)>>
               ELSE <<Event("Await", run), Event("Cancel", run)>>]

ValidateResultAwait(e, run, gsEnd, err) ==
    [ret |-> IF err # "nil" \/ gsEnd # e.End
             THEN Return(FALSE, gsEnd, err)
             ELSE Return(TRUE, e.End, "nil"),
     calls |-> <<Event("Await", run), Event("Cancel", run)>>]

\* the states a run may report for an entry: the expected one, and one that
\* differs from it in a single field
AwaitedStates(end) ==
    { end,
      [end EXCEPT !.BlockHash = CHOOSE h \in Hashes : h # end.BlockHash],
      [end EXCEPT !.SendRoot = OtherSendRoot],
      [end EXCEPT !.Batch = (end.Batch + 1) % UintMod],
      [end EXCEPT !.PosInBatch = (end.PosInBatch + 1) % UintMod] }

\* what run.Await may answer: any of these states without an error, or an
\* error together with the expected state or one with another block hash
AwaitAnswers(end) ==
    [gs : AwaitedStates(end), err : {"nil"}]
    \cup { [gs |-> g, err |-> "await"] :
              g \in { s \in AwaitedStates(end) : s.SendRoot = end.SendRoot
                                                /\ s.Batch = end.Batch
                                                /\ s.PosInBatch = end.PosInBatch } }

(***************************************************************************)
(* State.                                                                  *)
(***************************************************************************)
VARIABLES
    mergeCall,        \* the last direct call of copyPreimagesInto on map objects
    batchCall,        \* the last direct call of readFullBatch
    life,             \* the Start and Stop calls made on the validator, in order
    tasks,            \* the concurrent ValidateResult calls, each with its own locals and entry
    txStreamer,       \* v.streamer: the chain it holds, and the reorgs so far
    refs,             \* who holds which map: the entry and the references outside it
    heap,             \* the map objects allocated so far, by reference
    entryCall,        \* the last direct call on the entry
    tracker,          \* the inbox tracker
    redisConfigured,  \* v.redisValidator != nil
    pc,               \* where the ValidateResult call stands
    args,             \* its arguments: pos, useExec
    local,            \* locals of CreateReadyValidationEntry
    entry,            \* the validation entry of the call
    recording,        \* the recorder's answer, once asked
    dispatch,         \* the backends' answers in the dispatch step just taken
    run,              \* the run launched by the call
    awaited,          \* what run.Await returned: the state and the error
    calls,            \* the steps and collaborator calls of the call, in order
    ret,              \* what ValidateResult returned
    probe,            \* the result of a direct ToInput call on the entry
    posCall           \* the last call of the position algebra

vars == <<mergeCall, batchCall, life, tasks, txStreamer, refs, heap, entryCall, tracker, redisConfigured, pc, args, local, entry, recording,
          dispatch, run, awaited, calls, ret, probe, posCall>>

NoArgs == [pos |-> 0, useExec |-> FALSE]
NoLocal == [msg |-> Nil, result |-> Nil, prevDelayed |-> 0, prevResult |-> Nil,
            start |-> Nil, end |-> Nil, fullBatchInfo |-> Nil, prevBatches |-> <<>>]
NoRecording == [invoked |-> FALSE]
NoDispatch == [asked |-> FALSE, sup |-> {}, archs |-> <<>>, err |-> "nil"]
NoAwait == [gs |-> Nil, err |-> "pending"]
NoPosCall == [op |-> "none"]
NoEntryCall == [op |-> "none"]
\* no streamer and no concurrent calls are followed
NoStreamer == [fork |-> "none", reorgs |-> 0]
NoTasks == <<>>
\* copyPreimagesInto has not been called directly
NoMergeCall == [op |-> "none"]
\* readFullBatch has not been called directly
NoBatchCall == [op |-> "none"]
\* neither Start nor Stop has been called
NoLife == <<>>
\* a nil map reference
NilRef == 0
NoRefs == [op |-> "none", stage |-> "Empty", pos |-> 0,
           pre |-> 0, wasms |-> 0,
           batch |-> 0, recPre |-> 0, recWasms |-> 0, inPre |-> 0, inWasms |-> 0,
           writes |-> 0]

\* the trackers of the ValidateResult calls
CallTrackers ==
    { t \in HealthyTrackers :
        /\ Len(t.counts) <= CallBatches
        /\ \A i \in 1..Len(t.counts) : t.counts[i] <= CallMsgs }

Idle ==
    /\ pc = "idle"
    /\ args = NoArgs
    /\ local = NoLocal
    /\ entry = NilEntry
    /\ recording = NoRecording
    /\ dispatch = NoDispatch
    /\ run = NoRun
    /\ awaited = NoAwait
    /\ calls = <<>>
    /\ ret = NoReturn
    /\ probe = Nil

Init ==
    /\ tracker \in CallTrackers
    /\ redisConfigured \in BOOLEAN
    /\ Idle
    /\ batchCall = NoBatchCall
    /\ mergeCall = NoMergeCall
    /\ life = NoLife
    /\ tasks = NoTasks
    /\ txStreamer = NoStreamer
    /\ refs = NoRefs
    /\ heap = <<>>
    /\ entryCall = NoEntryCall
    /\ posCall = NoPosCall

\* the call ends with an error before any run exists: return false, nil, err
Fail(err) ==
    /\ pc' = "done"
    /\ ret' = Return(FALSE, Nil, err)

(***************************************************************************)
(* ValidateResult(ctx, pos, useExec, moduleRoot), step by step.            *)
(***************************************************************************)
Call ==
    /\ pc = "idle"
    /\ \E pos \in 0..(CallMsgs - 1), useExec \in BOOLEAN :
          args' = [pos |-> pos, useExec |-> useExec]
    /\ pc' = "streamer"
    /\ UNCHANGED <<mergeCall, batchCall, life, tasks, txStreamer, refs, heap, entryCall, tracker, redisConfigured, local, entry, recording, dispatch,
                   run, awaited, calls, ret, probe, posCall>>

\* CreateReadyValidationEntry, lines 435-455: the streamer's answers
StreamerRead ==
    /\ pc = "streamer"
    /\ calls' = Append(calls, Event("streamer", NoRun))
    /\ probe = Nil
    /\ probe' = Nil
    /\ \/ \E msg \in Messages, h \in StreamerHashes, prevDelayed \in 0..MaxDelayed :
            /\ local' = [local EXCEPT
                  !.msg = msg,
                  !.result = MessageResult(h, SendRoot),
                  !.prevDelayed = IF args.pos > 0 THEN prevDelayed ELSE 0,
                  !.prevResult = IF args.pos > 0
                                 THEN MessageResult(ZeroHash, SendRoot)
                                 ELSE ZeroMessageResult]
            /\ pc' = "positions"
            /\ ret' = ret
       \/ /\ Fail("streamer")
          /\ local' = local
    /\ UNCHANGED <<mergeCall, batchCall, life, tasks, txStreamer, refs, heap, entryCall, tracker, redisConfigured, args, entry, recording, dispatch,
                   run, awaited, posCall>>

\* CreateReadyValidationEntry, lines 457-462
ComputePositions ==
    /\ pc = "positions"
    /\ calls' = Append(calls, Event("positions", NoRun))
    /\ probe = Nil
    /\ probe' = Nil
    /\ \E find \in FindAnswers :
       LET r == ValidatorGlobalStatePositionsAtCount(
                    tracker, (args.pos + 1) % UintMod, find)
       IN  IF r.err # "nil"
           THEN /\ Fail("failed calculating position for validation")
                /\ local' = local
           ELSE /\ local' = [local EXCEPT
                      !.start = BuildGlobalState(local.prevResult, r.start),
                      !.end = BuildGlobalState(local.result, r.end)]
                /\ pc' = "batch"
                /\ ret' = ret
    /\ UNCHANGED <<mergeCall, batchCall, life, tasks, txStreamer, refs, heap, entryCall, tracker, redisConfigured, args, entry, recording, dispatch,
                   run, awaited, posCall>>

\* CreateReadyValidationEntry, lines 463-485
AssembleBatches ==
    /\ pc = "batch"
    /\ calls' = Append(calls, Event("batch", NoRun))
    /\ probe = Nil
    /\ probe' = Nil
    /\ \E ans \in [err : {"nil"}, preimages : BatchPreimagesChoices]
                    \cup {[err |-> "reader", preimages |-> EmptyMap]},
          past \in PastBatchesChoices, pastErr \in BOOLEAN :
          LET full == readFullBatch(tracker, local.start.Batch, ans)
              posted == [i \in 1..Len(past) |-> readPostedBatch(tracker, past[i])]
          IN  IF full.err # "nil"
              THEN Fail(full.err) /\ local' = local
              ELSE IF ~full.found
              THEN Fail("batch not found") /\ local' = local
              ELSE IF pastErr
              THEN Fail("PastBatchesRequired") /\ local' = local
              ELSE IF \E i \in 1..Len(past) : posted[i].err # "nil"
              THEN Fail("batch not found") /\ local' = local
              ELSE /\ local' = [local EXCEPT
                         !.fullBatchInfo = full.info,
                         !.prevBatches =
                            [i \in 1..Len(past) |-> BatchInfo(past[i], posted[i].data)]]
                   /\ pc' = "new"
                   /\ ret' = ret
    /\ UNCHANGED <<mergeCall, batchCall, life, tasks, txStreamer, refs, heap, entryCall, tracker, redisConfigured, args, entry, recording, dispatch,
                   run, awaited, posCall>>

\* CreateReadyValidationEntry, lines 486-489
NewEntry ==
    /\ pc = "new"
    /\ calls' = Append(calls, Event("new", NoRun))
    /\ probe = Nil
    /\ probe' = Nil
    /\ LET r == newValidationEntry(args.pos, local.start, local.end, local.msg,
                                   local.fullBatchInfo, local.prevBatches,
                                   local.prevDelayed)
       IN  IF r.err # "nil"
           THEN Fail(r.err) /\ entry' = entry
           ELSE entry' = r.entry /\ pc' = "record" /\ ret' = ret
    /\ UNCHANGED <<mergeCall, batchCall, life, tasks, txStreamer, refs, heap, entryCall, tracker, redisConfigured, args, local, recording, dispatch,
                   run, awaited, posCall>>

\* what the recorder may answer to RecordBlockCreation
RecorderAnswers ==
    [BlockHash : Hashes, Preimages : RecordingPreimagesChoices,
     UserWasms : UserWasmsChoices, err : {"nil"}]
    \cup {[BlockHash |-> ZeroHash, Preimages |-> Nil, UserWasms |-> EmptyMap,
           err |-> "recorder"]}

\* the delayed-message numbers an entry may carry
DelayedNumbers == (0..MaxDelayed) \cup EntryDelayedCounts

\* the serialized delayed message of a number
DelayedBytes(n) == <<"delayed", n>>

\* what the tracker may answer to GetDelayedMessageBytes(n), for each n: the
\* message's bytes, or an error
DelayedAnswers ==
    { [n \in DelayedNumbers |-> [bytes |-> DelayedBytes(n), err |-> "nil"]],
      [n \in DelayedNumbers |-> [bytes |-> <<>>, err |-> "tracker"]] }

\* CreateReadyValidationEntry, lines 490-495
Record ==
    /\ pc = "record"
    /\ probe = Nil
    /\ probe' = Nil
    /\ \E rec \in RecorderAnswers, delayed \in DelayedAnswers :
          LET r == ValidationEntryRecord(entry, rec, delayed)
          IN  /\ entry' = r.entry
              /\ recording' =
                    IF r.askedRecorder
                    THEN [invoked |-> TRUE, pos |-> entry.Pos, msg |-> entry.msg,
                          BlockHash |-> rec.BlockHash, err |-> rec.err]
                    ELSE recording
              /\ calls' = calls \o <<Event("record", NoRun)>>
                    \o (IF r.askedRecorder
                        THEN <<Event("RecordBlockCreation", NoRun)>> ELSE <<>>)
                    \o (IF r.askedDelayed
                        THEN <<Event("GetDelayedMessageBytes", NoRun)>> ELSE <<>>)
              /\ IF r.err # "nil"
                 THEN Fail(r.err)
                 ELSE pc' = "dispatch" /\ ret' = ret
    /\ UNCHANGED <<mergeCall, batchCall, life, tasks, txStreamer, refs, heap, entryCall, tracker, redisConfigured, args, local, dispatch, run, awaited,
                   posCall>>

\* what the backends may answer to StylusArchs(): the same list on each, of
\* at least one architecture
StylusArchsAnswers ==
    { [b \in Backends |-> l] : l \in { x \in TargetLists : Len(x) > 0 } }

\* ValidateResult, lines 505-531
Dispatch ==
    /\ pc = "dispatch"
    /\ probe = Nil
    /\ probe' = Nil
    /\ \E sup \in SUBSET Backends, archs \in StylusArchsAnswers :
          LET r == ValidateResultDispatch(entry, args.useExec, redisConfigured,
                                          sup, archs)
          IN  /\ dispatch' = [asked |-> TRUE, sup |-> sup, archs |-> archs,
                              err |-> r.err]
              /\ run' = r.run
              /\ calls' = calls \o <<Event("dispatch", NoRun)>> \o r.calls
              /\ IF r.run = NoRun
                 THEN Fail(r.err)
                 ELSE pc' = "await" /\ ret' = ret
    /\ UNCHANGED <<mergeCall, batchCall, life, tasks, txStreamer, refs, heap, entryCall, tracker, redisConfigured, args, local, entry, recording,
                   awaited, posCall>>

\* ValidateResult, lines 532-537
Await ==
    /\ pc = "await"
    /\ probe = Nil
    /\ probe' = Nil
    /\ \E ans \in AwaitAnswers(entry.End) :
          LET r == ValidateResultAwait(entry, run, ans.gs, ans.err)
          IN  /\ ret' = r.ret
              /\ calls' = calls \o r.calls
              /\ awaited' = ans
    /\ pc' = "done"
    /\ dispatch' = NoDispatch
    /\ UNCHANGED <<mergeCall, batchCall, life, tasks, txStreamer, refs, heap, entryCall, tracker, redisConfigured, args, local, entry, recording,
                   run, posCall>>

\* the caller takes the result; the validator is ready for the next call
Finish ==
    /\ pc = "done"
    /\ pc' = "idle"
    /\ args' = NoArgs
    /\ local' = NoLocal
    /\ entry' = NilEntry
    /\ recording' = NoRecording
    /\ dispatch' = NoDispatch
    /\ run' = NoRun
    /\ awaited' = NoAwait
    /\ calls' = <<>>
    /\ ret' = NoReturn
    /\ probe = Nil
    /\ probe' = Nil
    /\ UNCHANGED <<mergeCall, batchCall, life, tasks, txStreamer, refs, heap, entryCall, tracker, redisConfigured, posCall>>

\* a direct call of entry.ToInput(stylusArchs) on the entry as it stands
ToInputCall ==
    /\ entry # NilEntry
    /\ probe = Nil
    /\ pc \in {"record", "dispatch"}
    /\ \E stylusArchs \in TargetLists :
          probe' = [stage |-> entry.Stage, archs |-> stylusArchs,
                    input |-> ToInput(entry, stylusArchs).input,
                    err |-> ToInput(entry, stylusArchs).err]
    /\ UNCHANGED <<mergeCall, batchCall, life, tasks, txStreamer, refs, heap, entryCall, tracker, redisConfigured, pc, args, local, entry, recording,
                   dispatch, run, awaited, calls, ret, posCall>>

\* the direct ToInput call returns to its caller
ToInputReturn ==
    /\ probe # Nil
    /\ probe' = Nil
    /\ UNCHANGED <<mergeCall, batchCall, life, tasks, txStreamer, refs, heap, entryCall, tracker, redisConfigured, pc, args, local, entry, recording,
                   dispatch, run, awaited, calls, ret, posCall>>

Next ==
    \/ Call
    \/ StreamerRead
    \/ ComputePositions
    \/ AssembleBatches
    \/ NewEntry
    \/ Record
    \/ Dispatch
    \/ Await
    \/ Finish
    \/ ToInputCall
    \/ ToInputReturn

Spec == Init /\ [][Next]_vars

(***************************************************************************)
(* The position algebra called on its own, on any tracker.                 *)
(***************************************************************************)
InitPos ==
    /\ tracker \in Trackers
    /\ redisConfigured = FALSE
    /\ Idle
    /\ batchCall = NoBatchCall
    /\ mergeCall = NoMergeCall
    /\ life = NoLife
    /\ tasks = NoTasks
    /\ txStreamer = NoStreamer
    /\ refs = NoRefs
    /\ heap = <<>>
    /\ entryCall = NoEntryCall
    /\ posCall = NoPosCall

\* GlobalStatePositionsAtCount(tracker, count, batch)
CallPositionsAtCount ==
    /\ posCall = NoPosCall
    /\ \E count \in 0..(MaxMsgs + 1), batch \in 0..MaxBatches :
          posCall' = [op |-> "function", count |-> count, batch |-> batch,
                      res |-> GlobalStatePositionsAtCount(tracker, count, batch)]
    /\ UNCHANGED <<mergeCall, batchCall, life, tasks, txStreamer, refs, heap, entryCall, tracker, redisConfigured, pc, args, local, entry, recording,
                   dispatch, run, awaited, calls, ret, probe>>

\* v.GlobalStatePositionsAtCount(count) and, when it succeeds, the free
\* function called again with the batch it found: with the same count
\* (again) and with count + 1 (next)
CallValidatorPositionsAtCount ==
    /\ posCall = NoPosCall
    /\ \E count \in 0..(MaxMsgs + 1), find \in FindAnswers :
          LET res == ValidatorGlobalStatePositionsAtCount(tracker, count, find)
          IN  posCall' =
                 [op |-> "method", count |-> count, res |-> res,
                  find |-> find,
                  lookups |-> ValidatorPositionsLookups(count, find),
                  again |-> IF res.err # "nil" THEN PosFail("not called")
                            ELSE GlobalStatePositionsAtCount(
                                    tracker, count, res.start.BatchNumber),
                  next |-> IF res.err # "nil" THEN PosFail("not called")
                           ELSE GlobalStatePositionsAtCount(
                                    tracker, (count + 1) % UintMod,
                                    res.start.BatchNumber)]
    /\ UNCHANGED <<mergeCall, batchCall, life, tasks, txStreamer, refs, heap, entryCall, tracker, redisConfigured, pc, args, local, entry, recording,
                   dispatch, run, awaited, calls, ret, probe>>

\* the caller takes the result
ReturnPositions ==
    /\ posCall # NoPosCall
    /\ posCall' = NoPosCall
    /\ UNCHANGED <<mergeCall, batchCall, life, tasks, txStreamer, refs, heap, entryCall, tracker, redisConfigured, pc, args, local, entry, recording,
                   dispatch, run, awaited, calls, ret, probe>>

NextPos ==
    \/ CallPositionsAtCount
    \/ CallValidatorPositionsAtCount
    \/ ReturnPositions

SpecPos == InitPos /\ [][NextPos]_vars

(***************************************************************************)
(* The entry's operations called directly, in any order: newValidationEntry *)
(* on inputs of the caller's choice, then ValidationEntryRecord and ToInput *)
(* on the entry as it stands.                                               *)
(***************************************************************************)
\* the arguments of newValidationEntry
EntryPositions == {0, 1}
EntryStarts == { GoGlobalState(ZeroHash, SendRoot, b, 0) : b \in {0, 1} }
EntryEnd(start) == GoGlobalState("0xBB", SendRoot, start.Batch, 1)
EntryMessages == [DelayedMessagesRead : EntryDelayedCounts]
EntryFullBatchInfos ==
    {Nil} \cup { FullBatchInfo(n, PostedData(n), 2, p) :
                    n \in {0, 1}, p \in BatchPreimagesChoices }
EntryPrevBatches ==
    { <<>>,
      <<BatchInfo(1, PostedData(1))>>,
      <<BatchInfo(1, PostedData(1)), BatchInfo(0, PostedData(0))>> }

InitEntry ==
    /\ tracker = [counts |-> <<>>, failing |-> {}]
    /\ redisConfigured = FALSE
    /\ pc = "idle"
    /\ args = NoArgs
    /\ local = NoLocal
    /\ entry = EmptyEntry
    /\ recording = NoRecording
    /\ dispatch = NoDispatch
    /\ run = NoRun
    /\ awaited = NoAwait
    /\ calls = <<>>
    /\ ret = NoReturn
    /\ probe = Nil
    /\ posCall = NoPosCall
    /\ entryCall = NoEntryCall
    /\ heap = <<>>
    /\ refs = NoRefs
    /\ txStreamer = NoStreamer
    /\ tasks = NoTasks
    /\ life = NoLife
    /\ batchCall = NoBatchCall
    /\ mergeCall = NoMergeCall

\* newValidationEntry(pos, start, end, msg, fullBatchInfo, prevBatches,
\* prevDelayed, chainConfig)
EntryNew ==
    /\ entryCall = NoEntryCall
    /\ entry = EmptyEntry
    /\ \E pos \in EntryPositions, start \in EntryStarts, msg \in EntryMessages,
          fullBatchInfo \in EntryFullBatchInfos, prevBatches \in EntryPrevBatches,
          prevDelayed \in EntryDelayedCounts :
          LET r == newValidationEntry(pos, start, EntryEnd(start), msg,
                                      fullBatchInfo, prevBatches, prevDelayed)
          IN  /\ entry' = IF r.err = "nil" THEN r.entry ELSE entry
              /\ entryCall' = [op |-> "new", before |-> entry, err |-> r.err,
                               made |-> r.entry,
                               pos |-> pos, start |-> start, msg |-> msg,
                               fullBatchInfo |-> fullBatchInfo,
                               prevBatches |-> prevBatches,
                               prevDelayed |-> prevDelayed]
    /\ UNCHANGED <<mergeCall, batchCall, life, tasks, txStreamer, refs, heap, tracker, redisConfigured, pc, args, local, recording,
                   dispatch, run, awaited, calls, ret, probe, posCall>>

\* what the recorder may answer to a direct call
EntryRecorderAnswers ==
    [BlockHash : Hashes, Preimages : RecordingPreimagesChoices,
     UserWasms : EntryUserWasmsChoices, err : {"nil"}]
    \cup {[BlockHash |-> ZeroHash, Preimages |-> Nil, UserWasms |-> EmptyMap,
           err |-> "recorder"]}

\* v.ValidationEntryRecord(ctx, e) on the entry as it stands
EntryRecord ==
    /\ entryCall = NoEntryCall
    /\ \E rec \in EntryRecorderAnswers, delayed \in DelayedAnswers :
          LET r == ValidationEntryRecord(entry, rec, delayed)
          IN  /\ entry' = r.entry
              /\ entryCall' = [op |-> "record", before |-> entry, err |-> r.err,
                               rec |-> rec, delayed |-> delayed,
                               askedRecorder |-> r.askedRecorder,
                               askedDelayed |-> r.askedDelayed]
    /\ UNCHANGED <<mergeCall, batchCall, life, tasks, txStreamer, refs, heap, tracker, redisConfigured, pc, args, local, recording,
                   dispatch, run, awaited, calls, ret, probe, posCall>>

\* the target lists of the direct calls: the same targets in another order too
EntryTargetLists == TargetLists \cup {<<"amd64", "arm64">>}

\* e.ToInput(stylusArchs) on the entry as it stands
EntryToInput ==
    /\ entryCall = NoEntryCall
    /\ \E stylusArchs \in EntryTargetLists :
          LET r == ToInput(entry, stylusArchs)
          IN  entryCall' = [op |-> "toInput", before |-> entry, err |-> r.err,
                            archs |-> stylusArchs, input |-> r.input,
                            prev |-> Nil]
    /\ UNCHANGED <<mergeCall, batchCall, life, tasks, txStreamer, refs, heap, tracker, redisConfigured, pc, args, local, entry, recording,
                   dispatch, run, awaited, calls, ret, probe, posCall>>

\* a second e.ToInput(stylusArchs) right after the first; prev keeps what the
\* first call was given and returned
EntryToInputAgain ==
    /\ entryCall.op = "toInput"
    /\ entryCall.prev = Nil
    /\ \E stylusArchs \in EntryTargetLists :
          LET r == ToInput(entry, stylusArchs)
          IN  entryCall' = [op |-> "toInput", before |-> entry, err |-> r.err,
                            archs |-> stylusArchs, input |-> r.input,
                            prev |-> [archs |-> entryCall.archs,
                                      input |-> entryCall.input,
                                      err |-> entryCall.err]]
    /\ UNCHANGED <<mergeCall, batchCall, life, tasks, txStreamer, refs, heap, tracker, redisConfigured, pc, args, local, entry, recording,
                   dispatch, run, awaited, calls, ret, probe, posCall>>

\* the direct call returns to its caller
EntryReturn ==
    /\ entryCall # NoEntryCall
    /\ entryCall' = NoEntryCall
    /\ UNCHANGED <<mergeCall, batchCall, life, tasks, txStreamer, refs, heap, tracker, redisConfigured, pc, args, local, entry, recording,
                   dispatch, run, awaited, calls, ret, probe, posCall>>

NextEntry ==
    \/ EntryNew
    \/ EntryRecord
    \/ EntryToInput
    \/ EntryToInputAgain
    \/ EntryReturn

SpecEntry == InitEntry /\ [][NextEntry]_vars

(***************************************************************************)
(* The entry's maps as objects.  A Go map is a reference: heap[r] is what   *)
(* the map of reference r holds, an assignment of a map copies the          *)
(* reference, and a write through any copy is seen through all of them.     *)
(* A map of maps holds the references of its inner maps.                    *)
(***************************************************************************)
\* objects the heap may hold, writes an outside holder may make
MaxObjects == 12
MaxWrites == 1

\* make(map...): the heap with a new empty map, whose reference is Len + 1
HeapMake(h) == Append(h, EmptyMap)

\* m[k] = v on the map of reference r
HeapSet(h, r, k, v) ==
    LET old == h[r]
    IN  [h EXCEPT ![r] = [x \in (DOMAIN old) \cup {k} |-> IF x = k THEN v ELSE old[x]]]

\* delete(m, k) on the map of reference r
HeapDelete(h, r, k) ==
    LET old == h[r]
    IN  [h EXCEPT ![r] = [x \in (DOMAIN old) \ {k} |-> old[x]]]

\* the heap after allocating a map of maps with the given contents, inner
\* maps first; its reference is the length of the result
RECURSIVE HeapAllocInner(_, _, _, _)
HeapAllocInner(h, outer, value, keys) ==
    IF keys = {} THEN h
    ELSE LET k == CHOOSE x \in keys : TRUE
             h1 == Append(h, value[k])
             h2 == HeapSet(h1, outer, k, Len(h1))
         IN  HeapAllocInner(h2, outer, value, keys \ {k})

HeapAlloc(h, value) ==
    LET h1 == HeapMake(h)
        outer == Len(h1)
        h2 == HeapAllocInner(h1, outer, value, DOMAIN value)
    IN  [heap |-> h2, ref |-> outer]

\* func copyPreimagesInto(dest, source) on references (lines 360-369)
HeapCopyPreimagesInto_Shallow(h, dest, source, types) ==
    [h EXCEPT ![dest] = [ty \in (DOMAIN h[dest]) \cup types |->
                            IF ty \in types THEN h[source][ty] ELSE h[dest][ty]]]

RECURSIVE HeapCopyPreimagesInto(_, _, _, _)
HeapCopyPreimagesInto(h, dest, source, types) ==
    IF types = {} THEN h
    ELSE LET piType == CHOOSE t \in types : TRUE
             h1 == IF piType \in DOMAIN h[dest] /\ h[dest][piType] # NilRef
                   THEN h
                   ELSE HeapSet(HeapMake(h), dest, piType, Len(h) + 1)
             inner == h1[dest][piType]
             piMap == h1[h1[source][piType]]
             old == h1[inner]
             h2 == [h1 EXCEPT ![inner] =
                      [x \in (DOMAIN old) \cup (DOMAIN piMap) |->
                          IF x \in DOMAIN piMap THEN piMap[x] ELSE old[x]]]
         IN  HeapCopyPreimagesInto(h2, dest, source, types \ {piType})

\* newValidationEntry, lines 191 and 206: the entry's Preimages is a new map,
\* filled from fullBatchInfo.Preimages
HeapNewValidationEntry(h, batchPreimages) ==
    LET h1 == HeapMake(h)
        preimages == Len(h1)
    IN  [heap |-> HeapCopyPreimagesInto(h1, preimages, batchPreimages,
                                        DOMAIN h1[batchPreimages]),
         pre |-> preimages]

\* ValidationEntryRecord, lines 383-389: a new one-entry map around
\* recording.Preimages is merged into the entry's Preimages, and the entry's
\* UserWasms is assigned recording.UserWasms
HeapValidationEntryRecord(h, pre, recPre, recWasms) ==
    LET h1 == IF recPre = NilRef THEN h
              ELSE LET h0 == HeapSet(HeapMake(h), Len(h) + 1,
                                     Keccak256PreimageType, recPre)
                   IN  HeapCopyPreimagesInto(h0, pre, Len(h) + 1,
                                             {Keccak256PreimageType})
    IN  [heap |-> h1, wasms |-> recWasms]

\* ToInput, lines 152-177: Preimages is assigned e.Preimages; UserWasms is a
\* new map with a new map per target.  The maps made before an error return
\* are referenced by nothing and are left out of the heap.
RECURSIVE HeapToInputTargets(_, _, _, _)
HeapToInputTargets(h, inWasms, wasms, archs) ==
    IF archs = {} THEN h
    ELSE LET a == CHOOSE x \in archs : TRUE
             codes == IF wasms = NilRef THEN {} ELSE DOMAIN h[wasms]
             h1 == Append(h, [c \in codes |-> h[h[wasms][c]][a]])
             h2 == HeapSet(h1, inWasms, a, Len(h1))
         IN  HeapToInputTargets(h2, inWasms, wasms, archs \ {a})

HeapToInput(h, stage, pre, wasms, stylusArchs) ==
    LET archs == { stylusArchs[i] : i \in 1..Len(stylusArchs) }
        codes == IF wasms = NilRef THEN {} ELSE DOMAIN h[wasms]
        h1 == HeapMake(h)
    IN  IF stage # "Ready"
        THEN [heap |-> h, err |-> "cannot create input from non-ready entry",
              inPre |-> NilRef, inWasms |-> NilRef]
        ELSE IF Len(stylusArchs) = 0 /\ codes # {}
        THEN [heap |-> h, err |-> "stylus support is required",
              inPre |-> NilRef, inWasms |-> NilRef]
        ELSE IF \E c \in codes : \E a \in archs : a \notin DOMAIN h[h[wasms][c]]
        THEN [heap |-> h, err |-> "stylusArch not supported by block validator",
              inPre |-> NilRef, inWasms |-> NilRef]
        ELSE [heap |-> HeapToInputTargets(h1, Len(h1), wasms, archs),
              err |-> "nil", inPre |-> pre, inWasms |-> Len(h1)]

\* the preimages a caller may pass in fullBatchInfo
AliasBatchPreimages ==
    BatchPreimagesChoices \cup
    { [ty \in {Keccak256PreimageType} |-> [h \in {"p3"} |-> "d3"]] }

aliasRest == <<mergeCall, batchCall, life, tasks, txStreamer, tracker, redisConfigured, pc, args, local, entry, recording,
               dispatch, run, awaited, calls, ret, probe, posCall, entryCall>>

InitAlias ==
    /\ tracker = [counts |-> <<>>, failing |-> {}]
    /\ redisConfigured = FALSE
    /\ pc = "idle"
    /\ args = NoArgs
    /\ local = NoLocal
    /\ entry = NilEntry
    /\ recording = NoRecording
    /\ dispatch = NoDispatch
    /\ run = NoRun
    /\ awaited = NoAwait
    /\ calls = <<>>
    /\ ret = NoReturn
    /\ probe = Nil
    /\ posCall = NoPosCall
    /\ entryCall = NoEntryCall
    /\ heap = <<>>
    /\ refs = NoRefs
    /\ txStreamer = NoStreamer
    /\ tasks = NoTasks
    /\ life = NoLife
    /\ batchCall = NoBatchCall
    /\ mergeCall = NoMergeCall

\* the caller builds fullBatchInfo.Preimages and calls newValidationEntry;
\* one construction is followed
AliasNew ==
    /\ refs.stage = "Empty"
    /\ refs.batch = NilRef
    /\ \E pos \in EntryPositions, batchPreimages \in AliasBatchPreimages,
          accepted \in BOOLEAN :
          LET a == HeapAlloc(heap, batchPreimages)
              n == HeapNewValidationEntry(a.heap, a.ref)
          IN  IF accepted
              THEN /\ heap' = n.heap
                   /\ refs' = [refs EXCEPT !.op = "new", !.stage = "ReadyForRecord",
                                           !.pos = pos, !.pre = n.pre,
                                           !.batch = a.ref]
              ELSE /\ heap' = a.heap
                   /\ refs' = [refs EXCEPT !.op = "new failed", !.batch = a.ref]
    /\ UNCHANGED aliasRest

\* v.ValidationEntryRecord(ctx, e): the recorder builds its RecordResult; the
\* outcome is success, a recorder error, a block-hash mismatch or a failed
\* fetch of the delayed message.  One RecordResult is followed: once the
\* recorder has answered with one, the entry is not recorded again.
AliasRecord ==
    /\ refs.stage = "ReadyForRecord"
    /\ refs.recWasms = NilRef
    /\ Len(heap) + 6 <= MaxObjects
    /\ \E recPreimages \in RecordingPreimagesChoices, userWasms \in UserWasmsChoices,
          outcome \in {"ok", "recorder", "hash", "delayed"} :
          LET h1 == IF recPreimages = Nil THEN heap ELSE Append(heap, recPreimages)
              recPre == IF recPreimages = Nil THEN NilRef ELSE Len(h1)
              w == HeapAlloc(h1, userWasms)
              r == HeapValidationEntryRecord(w.heap, refs.pre, recPre, w.ref)
          IN  IF refs.pos = 0
              THEN /\ recPreimages = Nil
                   /\ userWasms = EmptyMap
                   /\ outcome \in {"ok", "delayed"}
                   /\ heap' = heap
                   /\ refs' = [refs EXCEPT
                         !.op = "record",
                         !.stage = IF outcome = "ok" THEN "Ready" ELSE @]
              ELSE IF outcome = "recorder"
              THEN /\ recPreimages = Nil
                   /\ userWasms = EmptyMap
                   /\ heap' = heap
                   /\ refs' = [refs EXCEPT !.op = "record"]
              ELSE IF outcome = "hash"
              THEN /\ heap' = w.heap
                   /\ refs' = [refs EXCEPT !.op = "record", !.recPre = recPre,
                                           !.recWasms = w.ref]
              ELSE /\ heap' = r.heap
                   /\ refs' = [refs EXCEPT
                         !.op = "record", !.recPre = recPre, !.recWasms = w.ref,
                         !.wasms = r.wasms,
                         !.stage = IF outcome = "ok" THEN "Ready" ELSE @]
    /\ UNCHANGED aliasRest

\* e.ToInput(stylusArchs); the caller keeps the input it got.  One returned
\* input is followed.
AliasToInput ==
    /\ refs.stage # "Empty"
    /\ refs.inWasms = NilRef
    /\ Len(heap) + 3 <= MaxObjects
    /\ \E stylusArchs \in TargetLists :
          LET r == HeapToInput(heap, refs.stage, refs.pre, refs.wasms, stylusArchs)
          IN  /\ heap' = r.heap
              /\ refs' = IF r.err # "nil"
                         THEN [refs EXCEPT !.op = "toInput failed"]
                         ELSE [refs EXCEPT !.op = "toInput", !.inPre = r.inPre,
                                           !.inWasms = r.inWasms]
    /\ UNCHANGED aliasRest

\* the maps reachable from a map of maps
Reach(r) ==
    IF r = NilRef THEN {}
    ELSE {r} \cup { heap[r][k] : k \in DOMAIN heap[r] }

\* the maps reachable from the references held outside the entry: the
\* caller's fullBatchInfo, the recorder's RecordResult, the input returned
OutsideMaps ==
    Reach(refs.batch) \cup Reach(refs.recWasms) \cup Reach(refs.inPre)
    \cup Reach(refs.inWasms) \cup ({refs.recPre} \ {NilRef})

\* a holder of an outside reference writes to a map it reaches: it deletes a
\* key, or stores a value the map already holds under a new key
AliasWrite ==
    /\ refs.writes < MaxWrites
    /\ \E r \in OutsideMaps : \E k \in DOMAIN heap[r] :
          \/ heap' = HeapDelete(heap, r, k)
          \/ heap' = HeapSet(heap, r, "written", heap[r][k])
    /\ refs' = [refs EXCEPT !.op = "write", !.writes = @ + 1]
    /\ UNCHANGED aliasRest

NextAlias ==
    \/ AliasNew
    \/ AliasRecord
    \/ AliasToInput
    \/ AliasWrite

SpecAlias == InitAlias /\ [][NextAlias]_vars

(***************************************************************************)
(* Concurrent ValidateResult calls while the streamer reorgs.  Each call   *)
(* has its own locals and its own entry; the streamer is shared.           *)
(***************************************************************************)
\* concurrent calls followed, and reorgs of the streamer
NumCalls == 2
MaxReorgs == 2

\* the chains the streamer may hold; they differ at every message
Forks == {"A", "B"}
ReorgPositions == {0, 1}

\* the block hash and the delayed-message count the streamer stores for a
\* message of a chain
StreamerHash(fork, pos) ==
    IF fork = "A" THEN (IF pos = 0 THEN "0xA0" ELSE "0xA1")
                  ELSE (IF pos = 0 THEN "0xB0" ELSE "0xB1")
StreamerDelayed(fork, pos) == IF fork = "A" THEN pos ELSE 1

\* v.streamer.GetMessage(pos), v.streamer.ResultAtMessageIndex(pos)
GetMessage(fork, pos) == [DelayedMessagesRead |-> StreamerDelayed(fork, pos)]
ResultAtMessageIndex(fork, pos) == MessageResult(StreamerHash(fork, pos), SendRoot)

\* one call: its position in the code, its locals (readFrom: the chain each
\* streamer read was answered from, in order), its entry, the hash the
\* recorder answered, the state the run reported, and what it returned
IdleTask ==
    [pc |-> "idle", pos |-> 0, msg |-> Nil, result |-> Nil, prevDelayed |-> 0,
     prevResult |-> ZeroMessageResult, readFrom |-> <<>>, entry |-> NilEntry,
     recHash |-> "none", gsEnd |-> Nil, ret |-> NoReturn]

reorgRest == <<mergeCall, batchCall, life, refs, heap, entryCall, redisConfigured, pc, args, local, entry,
               recording, dispatch, run, awaited, calls, ret, probe, posCall>>

InitReorg ==
    /\ tracker = [counts |-> <<1, 3>>, failing |-> {}]
    /\ redisConfigured = FALSE
    /\ Idle
    /\ batchCall = NoBatchCall
    /\ mergeCall = NoMergeCall
    /\ life = NoLife
    /\ posCall = NoPosCall
    /\ entryCall = NoEntryCall
    /\ heap = <<>>
    /\ refs = NoRefs
    /\ txStreamer = [fork |-> "A", reorgs |-> 0]
    /\ tasks = [i \in 1..NumCalls |-> IdleTask]

TaskFail(i, err) ==
    tasks' = [tasks EXCEPT ![i] = [@ EXCEPT !.pc = "done",
                                            !.ret = Return(FALSE, Nil, err)]]

\* ValidateResult(ctx, pos, ...) is called
TaskCall(i) ==
    /\ tasks[i].pc = "idle"
    /\ \E pos \in ReorgPositions :
          tasks' = [tasks EXCEPT ![i] = [@ EXCEPT !.pc = "msg", !.pos = pos]]
    /\ UNCHANGED <<txStreamer, tracker>>
    /\ UNCHANGED reorgRest

\* CreateReadyValidationEntry, lines 435-455: one read of the streamer, which
\* answers from the chain it holds at that moment, or with an error
TaskStreamerRead(i) ==
    LET t == tasks[i]
        f == txStreamer.fork
        from == Append(t.readFrom, f)
    IN  /\ t.pc \in {"msg", "result", "prevMsg", "prevResult"}
        /\ \E ok \in BOOLEAN :
              IF ~ok THEN TaskFail(i, "streamer")
              ELSE tasks' = [tasks EXCEPT ![i] =
                      CASE t.pc = "msg" ->
                             [t EXCEPT !.msg = GetMessage(f, t.pos),
                                       !.readFrom = from, !.pc = "result"]
                        [] t.pc = "result" ->
                             [t EXCEPT !.result = ResultAtMessageIndex(f, t.pos),
                                       !.readFrom = from,
                                       !.pc = IF t.pos > 0 THEN "prevMsg"
                                              ELSE "assemble"]
                        [] t.pc = "prevMsg" ->
                             [t EXCEPT !.prevDelayed =
                                          GetMessage(f, t.pos - 1).DelayedMessagesRead,
                                       !.readFrom = from, !.pc = "prevResult"]
                        [] t.pc = "prevResult" ->
                             [t EXCEPT !.prevResult =
                                          ResultAtMessageIndex(f, t.pos - 1),
                                       !.readFrom = from, !.pc = "assemble"]]
        /\ UNCHANGED <<txStreamer, tracker>>
        /\ UNCHANGED reorgRest

\* CreateReadyValidationEntry, lines 457-489: positions, batches and the new
\* entry, from the locals and the inbox tracker
TaskAssemble(i) ==
    LET t == tasks[i]
        r == ValidatorGlobalStatePositionsAtCount(
                 tracker, (t.pos + 1) % UintMod,
                 [batch |-> 1, found |-> TRUE, err |-> FALSE])
        start == BuildGlobalState(t.prevResult, r.start)
        end == BuildGlobalState(t.result, r.end)
        full == readFullBatch(tracker, start.Batch,
                              [err |-> "nil", preimages |-> EmptyMap])
        n == newValidationEntry(t.pos, start, end, t.msg, full.info, <<>>,
                                t.prevDelayed)
    IN  /\ t.pc = "assemble"
        /\ IF r.err # "nil"
           THEN TaskFail(i, "failed calculating position for validation")
           ELSE IF full.err # "nil" THEN TaskFail(i, full.err)
           ELSE IF ~full.found THEN TaskFail(i, "batch not found")
           ELSE IF n.err # "nil" THEN TaskFail(i, n.err)
           ELSE tasks' = [tasks EXCEPT ![i] =
                             [t EXCEPT !.entry = n.entry, !.pc = "record"]]
        /\ UNCHANGED <<txStreamer, tracker>>
        /\ UNCHANGED reorgRest

\* CreateReadyValidationEntry, lines 490-495: the recorder answers with the
\* block hash of one of the chains, or with an error
TaskRecord(i) ==
    LET t == tasks[i]
    IN  /\ t.pc = "record"
        /\ \E f \in Forks, recErr \in BOOLEAN :
              LET rec == [BlockHash |-> StreamerHash(f, t.pos), Preimages |-> Nil,
                          UserWasms |-> EmptyMap,
                          err |-> IF recErr THEN "recorder" ELSE "nil"]
                  delayed == [n \in DelayedNumbers |->
                                [bytes |-> DelayedBytes(n), err |-> "nil"]]
                  r == ValidationEntryRecord(t.entry, rec, delayed)
              IN  tasks' = [tasks EXCEPT ![i] =
                     [t EXCEPT
                        !.entry = r.entry,
                        !.recHash = IF r.askedRecorder /\ ~recErr
                                    THEN rec.BlockHash ELSE "none",
                        !.pc = IF r.err # "nil" THEN "done" ELSE "validate",
                        !.ret = IF r.err # "nil" THEN Return(FALSE, Nil, r.err)
                                ELSE @]]
        /\ UNCHANGED <<txStreamer, tracker>>
        /\ UNCHANGED reorgRest

\* ValidateResult, lines 505-537: launch on the first spawner and await
TaskValidate(i) ==
    LET t == tasks[i]
        d == ValidateResultDispatch(t.entry, FALSE, FALSE, {1},
                                    [b \in Backends |-> <<"arm64">>])
    IN  /\ t.pc = "validate"
        /\ IF d.run = NoRun
           THEN TaskFail(i, d.err)
           ELSE \E ans \in AwaitAnswers(t.entry.End) :
                   tasks' = [tasks EXCEPT ![i] =
                      [t EXCEPT
                         !.gsEnd = ans.gs,
                         !.ret = ValidateResultAwait(t.entry, d.run, ans.gs,
                                                     ans.err).ret,
                         !.pc = "done"]]
        /\ UNCHANGED <<txStreamer, tracker>>
        /\ UNCHANGED reorgRest

\* the streamer reorgs to the other chain
Reorg ==
    /\ txStreamer.reorgs < MaxReorgs
    /\ \E f \in Forks \ {txStreamer.fork} :
          txStreamer' = [fork |-> f, reorgs |-> txStreamer.reorgs + 1]
    /\ UNCHANGED <<tasks, tracker>>
    /\ UNCHANGED reorgRest

NextReorg ==
    \/ \E i \in 1..NumCalls : TaskCall(i)
    \/ \E i \in 1..NumCalls : TaskStreamerRead(i)
    \/ \E i \in 1..NumCalls : TaskAssemble(i)
    \/ \E i \in 1..NumCalls : TaskRecord(i)
    \/ \E i \in 1..NumCalls : TaskValidate(i)
    \/ Reorg

SpecReorg == InitReorg /\ [][NextReorg]_vars

(***************************************************************************)
(* Start and Stop of the validator.                                        *)
(***************************************************************************)
\* Start and Stop calls followed
MaxLifeCalls == 2

\* func (v *StatelessBlockValidator) Start(ctx_in): the components started,
\* in order, and the error.  failing holds the components whose Start
\* returns an error.
Start(configured, failing) ==
    LET order == (IF configured THEN <<Redis>> ELSE <<>>)
                 \o [i \in 1..NumSpawners |-> i]
        failed == { k \in 1..Len(order) : order[k] \in failing }
        last == IF failed = {} THEN Len(order)
                ELSE CHOOSE k \in failed : \A j \in failed : k <= j
    IN  [events |-> [k \in 1..last |-> Event("Start", order[k])],
         err |-> IF failed = {} THEN "nil"
                 ELSE IF order[last] = Redis THEN "starting execution spawner"
                 ELSE "spawner"]

\* func (v *StatelessBlockValidator) Stop(): the components stopped, in order
Stop_RedisFirst(configured) ==
    (IF configured THEN <<Event("Stop", Redis)>> ELSE <<>>)
    \o [i \in 1..NumSpawners |-> Event("Stop", i)]

Stop(configured) ==
    [i \in 1..NumSpawners |-> Event("Stop", i)]
    \o (IF configured THEN <<Event("Stop", Redis)>> ELSE <<>>)

lifeRest == <<mergeCall, batchCall, tasks, txStreamer, refs, heap, entryCall, tracker, redisConfigured,
              pc, args, local, entry, recording, dispatch, run, awaited, calls,
              ret, probe, posCall>>

InitLife ==
    /\ tracker = [counts |-> <<>>, failing |-> {}]
    /\ redisConfigured \in BOOLEAN
    /\ Idle
    /\ batchCall = NoBatchCall
    /\ mergeCall = NoMergeCall
    /\ posCall = NoPosCall
    /\ entryCall = NoEntryCall
    /\ heap = <<>>
    /\ refs = NoRefs
    /\ txStreamer = NoStreamer
    /\ tasks = NoTasks
    /\ life = NoLife

LifeStart ==
    /\ Len(life) < MaxLifeCalls
    /\ \E failing \in SUBSET Backends :
          LET r == Start(redisConfigured, failing)
          IN  life' = Append(life, [op |-> "Start", failing |-> failing,
                                    events |-> r.events, err |-> r.err])
    /\ UNCHANGED lifeRest

LifeStop ==
    /\ Len(life) < MaxLifeCalls
    /\ life' = Append(life, [op |-> "Stop", failing |-> {},
                             events |-> Stop(redisConfigured), err |-> "nil"])
    /\ UNCHANGED lifeRest

NextLife ==
    \/ LifeStart
    \/ LifeStop

SpecLife == InitLife /\ [][NextLife]_vars

(***************************************************************************)
(* readFullBatch with its data-availability readers, called directly.      *)
(***************************************************************************)
\* data-availability readers configured
MaxReaders == 2

\* the header byte postedData[40]: a DAS header, a blob header, a plain
\* brotli batch
HeaderBytes == {"das", "blob", "brotli"}

\* daprovider.IsDASMessageHeaderByte
IsDASMessageHeaderByte(b) == b = "das"

\* the sequencer message: its length and, when longer than 40 bytes, its
\* header byte
PostedChoices ==
    { [len |-> l, header |-> "absent"] : l \in {0, 40} }
    \cup { [len |-> 41, header |-> b] : b \in HeaderBytes }

\* v.inboxReader.GetSequencerMessageBytes: (postedData, err)
InboxReaderAnswers ==
    [data : PostedChoices, err : {"nil"}]
    \cup { [data |-> [len |-> 0, header |-> "absent"], err |-> "inbox reader"] }

\* what a reader may record into the preimages map it is handed, and a map of
\* its own it may return instead
KeysetPreimages == [ty \in {Keccak256PreimageType} |-> [h \in {"k1"} |-> "keyset"]]
ReaderOwnPreimages == [ty \in {"das"} |-> [h \in {"p1"} |-> "d1"]]

\* a daprovider.Reader: the header bytes IsValidHeaderByte accepts, and what
\* RecoverPayloadFromBatch does: the error it returns ("seqmsg": an error
\* whose text contains ErrSeqMsgValidation), what it wrote into the map it
\* was handed, and on success whether it returns that map or one of its own.
\* A reader may be nil.
ReaderChoices ==
    [accepts : {{"das"}, {"blob"}}, err : {"nil"},
     wrote : {EmptyMap, KeysetPreimages}, returned : {"passed", "own"}]
    \cup [accepts : {{"das"}, {"blob"}}, err : {"seqmsg", "other"},
          wrote : {EmptyMap, KeysetPreimages}, returned : {"nil"}]
    \cup {Nil}

ReaderLists == UNION { [1..n -> ReaderChoices] : n \in 0..MaxReaders }

\* line 333: the recovery error that is logged and not returned
RecoveryTolerated_AnySentinel(err, header) == err = "seqmsg"

RecoveryTolerated(err, header) == err = "seqmsg" /\ IsDASMessageHeaderByte(header)

BatchResult(found, info, err, asked, recovered) ==
    [found |-> found, info |-> info, err |-> err, asked |-> asked,
     recovered |-> recovered]

\* func (v *StatelessBlockValidator) readFullBatch(ctx, batchNum), lines
\* 306-358, with the readers: (found, fullBatchInfo, err), the readers asked
\* IsValidHeaderByte and the readers asked RecoverPayloadFromBatch, in order.
\* countErr: GetBatchCount returns an error.
readFullBatchDA(t, countErr, batchNum, inbox, dapReaders) ==
    IF countErr THEN BatchResult(FALSE, Nil, "GetBatchCount", <<>>, <<>>)
    ELSE IF GetBatchCount(t) <= batchNum
    THEN BatchResult(FALSE, Nil, "nil", <<>>, <<>>)
    ELSE IF GetBatchMessageCount(t, batchNum).err
    THEN BatchResult(FALSE, Nil, "lookup", <<>>, <<>>)
    ELSE IF inbox.err # "nil"
    THEN BatchResult(FALSE, Nil, inbox.err, <<>>, <<>>)
    ELSE
    LET postedData == inbox.data
        info(p) == FullBatchInfo(batchNum, postedData,
                                 GetBatchMessageCount(t, batchNum).count, p)
        matching == { k \in 1..Len(dapReaders) :
                        /\ dapReaders[k] # Nil
                        /\ postedData.header \in dapReaders[k].accepts }
        first == IF matching = {} THEN Len(dapReaders)
                 ELSE CHOOSE k \in matching : \A j \in matching : k <= j
        asked == SelectSeq([k \in 1..first |-> k], LAMBDA k : dapReaders[k] # Nil)
    IN  IF postedData.len <= 40
        THEN BatchResult(TRUE, info(EmptyMap), "nil", <<>>, <<>>)
        ELSE IF matching = {}
        THEN BatchResult(TRUE, info(EmptyMap), "nil", asked, <<>>)
        ELSE LET rd == dapReaders[first]
                 passed == copyPreimagesInto(EmptyMap, rd.wrote)
             IN  IF rd.err = "nil"
                 THEN BatchResult(TRUE,
                          info(IF rd.returned = "passed" THEN passed
                               ELSE ReaderOwnPreimages),
                          "nil", asked, <<first>>)
                 ELSE IF RecoveryTolerated(rd.err, postedData.header)
                 THEN BatchResult(TRUE, info(passed), "nil", asked, <<first>>)
                 ELSE BatchResult(FALSE, Nil, rd.err, asked, <<first>>)

\* the trackers and batch numbers of the direct calls
BatchTrackers ==
    { [counts |-> <<>>, failing |-> {}], [counts |-> <<1>>, failing |-> {}],
      [counts |-> <<1>>, failing |-> {0}] }
BatchNumbers == {0, 1}

batchRest == <<mergeCall, life, tasks, txStreamer, refs, heap, entryCall, tracker,
               redisConfigured, pc, args, local, entry, recording, dispatch, run,
               awaited, calls, ret, probe, posCall>>

InitBatch ==
    /\ tracker = [counts |-> <<>>, failing |-> {}]
    /\ redisConfigured = FALSE
    /\ Idle
    /\ posCall = NoPosCall
    /\ entryCall = NoEntryCall
    /\ heap = <<>>
    /\ refs = NoRefs
    /\ txStreamer = NoStreamer
    /\ tasks = NoTasks
    /\ life = NoLife
    /\ batchCall = NoBatchCall
    /\ mergeCall = NoMergeCall

\* v.readFullBatch(ctx, batchNum) is called and returns
BatchRead ==
    /\ batchCall = NoBatchCall
    /\ mergeCall = NoMergeCall
    /\ \E t \in BatchTrackers, countErr \in BOOLEAN, batchNum \in BatchNumbers,
          inbox \in InboxReaderAnswers, dapReaders \in ReaderLists :
          batchCall' = [op |-> "readFullBatch", t |-> t, countErr |-> countErr,
                        batchNum |-> batchNum, inbox |-> inbox,
                        dapReaders |-> dapReaders,
                        result |-> readFullBatchDA(t, countErr, batchNum, inbox,
                                                   dapReaders)]
    /\ UNCHANGED batchRest

\* the caller takes the result
BatchReturn ==
    /\ batchCall # NoBatchCall
    /\ batchCall' = NoBatchCall
    /\ UNCHANGED batchRest

NextBatch ==
    \/ BatchRead
    \/ BatchReturn

SpecBatch == InitBatch /\ [][NextBatch]_vars

(***************************************************************************)
(* copyPreimagesInto called directly on map objects.                       *)
(***************************************************************************)
\* merges of the same source followed
MaxMerges == 2

\* the maps from hash to bytes, and the preimage maps, of the direct calls
MergeInner == UNION { [hs -> {"d1", "d2"}] : hs \in SUBSET {"p1", "p2"} }
MergeMaps ==
    UNION { [ts -> MergeInner] : ts \in SUBSET {Keccak256PreimageType, "das"} }

\* dest and source as objects: two maps with inner maps of their own, or one
\* and the same map
MergeHeap(destValue, sourceValue, same) ==
    LET d == HeapAlloc(<<>>, destValue)
        s == HeapAlloc(d.heap, sourceValue)
    IN  IF same THEN [heap |-> d.heap, dest |-> d.ref, source |-> d.ref]
        ELSE [heap |-> s.heap, dest |-> d.ref, source |-> s.ref]

mergeRest == <<batchCall, life, tasks, txStreamer, refs, entryCall, tracker,
               redisConfigured, pc, args, local, entry, recording, dispatch, run,
               awaited, calls, ret, probe, posCall>>

InitMerge ==
    /\ tracker = [counts |-> <<>>, failing |-> {}]
    /\ redisConfigured = FALSE
    /\ Idle
    /\ posCall = NoPosCall
    /\ entryCall = NoEntryCall
    /\ refs = NoRefs
    /\ txStreamer = NoStreamer
    /\ tasks = NoTasks
    /\ life = NoLife
    /\ batchCall = NoBatchCall
    /\ \E destValue \in MergeMaps, sourceValue \in MergeMaps, same \in BOOLEAN :
          LET m == MergeHeap(destValue, sourceValue, same)
          IN  /\ heap = m.heap
              /\ mergeCall = [op |-> "made", dest |-> m.dest, source |-> m.source,
                              merges |-> 0, made |-> m.heap, before |-> <<>>,
                              first |-> <<>>, rec |-> EmptyMap]

\* copyPreimagesInto(dest, source)
MergeCopy ==
    /\ mergeCall.op \in {"made", "copy"}
    /\ mergeCall.merges < MaxMerges
    /\ heap' = HeapCopyPreimagesInto(heap, mergeCall.dest, mergeCall.source,
                                     DOMAIN heap[mergeCall.source])
    /\ mergeCall' = [mergeCall EXCEPT
                        !.op = "copy",
                        !.merges = @ + 1,
                        !.before = heap,
                        !.first = IF mergeCall.merges = 0 THEN heap' ELSE @]
    /\ UNCHANGED mergeRest

\* ValidationEntryRecord, lines 383-388, with dest as the entry's Preimages
\* and rec as recording.Preimages
MergeRecord ==
    /\ mergeCall.op = "made"
    /\ \E rec \in MergeInner :
          LET h0 == Append(heap, rec)
              r == HeapValidationEntryRecord(h0, mergeCall.dest, Len(h0), NilRef)
          IN  /\ heap' = r.heap
              /\ mergeCall' = [mergeCall EXCEPT !.op = "record", !.before = heap,
                                                !.rec = rec]
    /\ UNCHANGED mergeRest

NextMerge ==
    \/ MergeCopy
    \/ MergeRecord

SpecMerge == InitMerge /\ [][NextMerge]_vars

(***************************************************************************)
(* Properties of the position algebra.                                     *)
(***************************************************************************)
\* the tracker answers both lookups GlobalStatePositionsAtCount makes for b
LookupsSucceed(t, b) ==
    /\ b < Len(t.counts)
    /\ b \notin t.failing
    /\ b > 0 => (b - 1) \notin t.failing

MsgCountInBatch(t, b) == t.counts[b + 1]

\* C7: for a batch b whose lookups succeed and a count c with
\* firstInBatch(b) < c <= msgCountInBatch(b), GlobalStatePositionsAtCount
\* returns start = (b, c - firstInBatch(b) - 1) and end = (b+1, 0) if c is the
\* batch's message count, else end = (b, start.posInBatch + 1); the roll-over
\* happens if and only if c is the batch's message count.
C7_PositionsAtCount ==
    posCall.op = "function" =>
        LET t == tracker
            b == posCall.batch
            c == posCall.count
            r == posCall.res
        IN  (LookupsSucceed(t, b) /\ FirstInBatch(t, b) < c /\ c <= MsgCountInBatch(t, b))
            => /\ r.err = "nil"
               /\ r.start = GlobalStatePosition(b, c - FirstInBatch(t, b) - 1)
               /\ r.end = IF MsgCountInBatch(t, b) = c
                          THEN GlobalStatePosition(b + 1, 0)
                          ELSE GlobalStatePosition(b, r.start.PosInBatch + 1)
               /\ (r.end = GlobalStatePosition(b + 1, 0)) <=> (MsgCountInBatch(t, b) = c)

\* a straddle: the last message of a later batch, not its first
C7_Witness ==
    /\ posCall.op = "function"
    /\ posCall.res.err = "nil"
    /\ posCall.batch >= 1
    /\ posCall.res.start.PosInBatch >= 1
    /\ posCall.res.end = GlobalStatePosition(posCall.batch + 1, 0)

\* C9 as stated, under either reading of pos (the method's argument, or the
\* message index whose count is the method's argument): whenever
\* v.GlobalStatePositionsAtCount succeeds with (start, end), the free function
\* called with start.batch, and with the count after the argument or with the
\* argument itself, returns the same (start, end).
C9_Original ==
    (posCall.op = "method" /\ posCall.res.err = "nil")
        => (posCall.next = posCall.res \/ posCall.again = posCall.res)

\* C9 amended: whenever v.GlobalStatePositionsAtCount(count) succeeds with
\* (start, end) and either count >= 2 or the tracker reports that batch 0
\* holds exactly one message, GlobalStatePositionsAtCount(tracker, count,
\* start.batch), with the same count, returns the same (start, end).
C9_RoundTrip ==
    (/\ posCall.op = "method"
     /\ posCall.res.err = "nil"
     /\ \/ posCall.count >= 2
        \/ GetBatchMessageCount(tracker, 0) = [count |-> 1, err |-> FALSE])
        => posCall.again = posCall.res

\* the method found the batch of a message that is not the first of its batch
C9_Witness ==
    /\ posCall.op = "method"
    /\ posCall.count >= 2
    /\ posCall.res.err = "nil"
    /\ posCall.res.start.BatchNumber >= 1
    /\ posCall.res.start.PosInBatch >= 1
    /\ posCall.res.end.PosInBatch = 0
    /\ posCall.again = posCall.res

\* C10: GlobalStatePositionsAtCount fails, returning zero positions, exactly
\* when a tracker lookup fails, msgCountInBatch < count or firstInBatch >=
\* count; on success firstInBatch < count <= msgCountInBatch and
\* start.posInBatch is count - firstInBatch - 1 without a wrap, so
\* 0 <= start.posInBatch < msgCountInBatch - firstInBatch.
C10_FailsExactlyWhen ==
    posCall.op = "function" =>
        LET t == tracker
            b == posCall.batch
            c == posCall.count
            r == posCall.res
            mustFail == \/ ~LookupsSucceed(t, b)
                        \/ MsgCountInBatch(t, b) < c
                        \/ FirstInBatch(t, b) >= c
        IN  /\ (r.err # "nil") <=> mustFail
            /\ r.err # "nil" => (r.start = ZeroPosition /\ r.end = ZeroPosition)
            /\ r.err = "nil" =>
                  /\ FirstInBatch(t, b) < c
                  /\ c <= MsgCountInBatch(t, b)
                  /\ r.start.PosInBatch = c - FirstInBatch(t, b) - 1
                  /\ 0 <= r.start.PosInBatch
                  /\ r.start.PosInBatch < MsgCountInBatch(t, b) - FirstInBatch(t, b)

\* the batch starts exactly at count: the subtraction would wrap
C10_Witness ==
    /\ posCall.op = "function"
    /\ posCall.batch > 0
    /\ LookupsSucceed(tracker, posCall.batch)
    /\ FirstInBatch(tracker, posCall.batch) = posCall.count
    /\ posCall.res.err = "batch starts from"

\* C11: v.GlobalStatePositionsAtCount(0) always fails with "no initial
\* state"; v.GlobalStatePositionsAtCount(1) always returns ((0,0),(1,0)),
\* whatever the tracker holds and without any tracker lookup; for a larger
\* argument, when the tracker finds no containing batch the call fails with
\* "batch not found on L1 yet" and the free function is not invoked.
C11_BoundaryCases ==
    posCall.op = "method" =>
        /\ posCall.count = 0 =>
              /\ posCall.res = PosFail("no initial state for count==0")
              /\ posCall.lookups = <<>>
        /\ posCall.count = 1 =>
              /\ posCall.res = PosOk(GlobalStatePosition(0, 0), GlobalStatePosition(1, 0))
              /\ posCall.lookups = <<>>
        /\ (posCall.count >= 2 /\ ~posCall.find.err /\ ~posCall.find.found) =>
              /\ posCall.res = PosFail("batch not found on L1 yet")
              /\ \A i \in 1..Len(posCall.lookups) :
                    posCall.lookups[i] # "GlobalStatePositionsAtCount"

\* argument 1 on a tracker whose batch 0 holds two messages, with a tracker
\* that would have found a batch
C11_Witness ==
    /\ posCall.op = "method"
    /\ posCall.count = 1
    /\ Len(tracker.counts) >= 1
    /\ tracker.counts[1] = 2
    /\ posCall.find.found
    /\ posCall.res.end = GlobalStatePosition(1, 0)

(***************************************************************************)
(* Properties of the entry.                                                *)
(***************************************************************************)
\* a step that makes a direct call on the entry
EntryCallStep == entryCall = NoEntryCall /\ entryCall' # NoEntryCall

\* C12: every entry is constructed at stage ReadyForRecord with its message
\* present; the only stage change is ReadyForRecord -> Ready, made by a
\* successful ValidationEntryRecord, which clears the message in the same
\* step; ValidationEntryRecord on an entry that is not ReadyForRecord (Empty
\* or Ready) fails; and whenever ValidationEntryRecord fails the stage stays
\* as it was, so it never decreases and a failed entry is never Ready.
C12_EntryLifecycle ==
    [][EntryCallStep =>
        /\ (entryCall'.op = "new" /\ entryCall'.err = "nil") =>
              /\ entry'.Stage = "ReadyForRecord"
              /\ entry'.msg = entryCall'.msg
              /\ entry'.msg # Nil
        /\ (entryCall'.op = "new" /\ entryCall'.err # "nil") =>
              /\ entryCall'.made = NilEntry
              /\ entry' = entry
        /\ (entryCall'.op # "new" /\ entry'.Stage # entry.Stage) =>
              /\ entryCall'.op = "record"
              /\ entryCall'.err = "nil"
              /\ entry.Stage = "ReadyForRecord"
              /\ entry'.Stage = "Ready"
        /\ (entryCall'.op = "record" /\ entryCall'.err = "nil") =>
              /\ entry.Stage = "ReadyForRecord"
              /\ entry.msg # Nil
              /\ entry'.Stage = "Ready"
              /\ entry'.msg = Nil
        /\ (entryCall'.op = "record" /\ entry.Stage # "ReadyForRecord") =>
              /\ entryCall'.err = "validation entry should be ReadyForRecord"
              /\ entry' = entry
        /\ (entryCall'.op = "record" /\ entryCall'.err # "nil") =>
              /\ entry'.Stage = entry.Stage
              /\ entry.Stage = "ReadyForRecord" => entry'.msg = entry.msg
    ]_vars

\* the delayed-message fetch failed and the entry is still ReadyForRecord
C12_Witness ==
    /\ entryCall.op = "record"
    /\ entryCall.before.Stage = "ReadyForRecord"
    /\ entryCall.askedDelayed
    /\ entryCall.err # "nil"
    /\ entry.Stage = "ReadyForRecord"

\* the batch arguments of a newValidationEntry call pass its first two checks
EntryBatchAccepted ==
    /\ entryCall.fullBatchInfo # Nil
    /\ entryCall.fullBatchInfo.Number = entryCall.start.Batch

\* C13: in newValidationEntry, for all msg.DelayedMessagesRead and
\* prevDelayed (uint64 arithmetic): if msg.DelayedMessagesRead = prevDelayed
\* + 1 the entry has HasDelayedMsg and DelayedMsgNr = prevDelayed; if it
\* equals prevDelayed the entry has no delayed message and DelayedMsgNr = 0;
\* for every other pair construction fails with "illegal validation entry
\* delayedMessage" and no entry is produced.
C13_DelayedBookkeeping ==
    (entryCall.op = "new" /\ EntryBatchAccepted) =>
        LET read == entryCall.msg.DelayedMessagesRead
            prev == entryCall.prevDelayed
            next == (prev + 1) % UintMod
        IN  /\ read = next =>
                  /\ entryCall.err = "nil"
                  /\ entryCall.made.HasDelayedMsg
                  /\ entryCall.made.DelayedMsgNr = prev
            /\ read = prev =>
                  /\ entryCall.err = "nil"
                  /\ ~entryCall.made.HasDelayedMsg
                  /\ entryCall.made.DelayedMsgNr = 0
            /\ (read # next /\ read # prev) =>
                  /\ entryCall.err = "illegal validation entry delayedMessage"
                  /\ entryCall.made = NilEntry
                  /\ entry = EmptyEntry
            /\ entryCall.err = "nil" =>
                  (entryCall.made.HasDelayedMsg <=> read = next)

\* the message reads its third delayed message after a predecessor with two
C13_Witness ==
    /\ entryCall.op = "new"
    /\ entryCall.err = "nil"
    /\ entryCall.prevDelayed = 1
    /\ entryCall.msg.DelayedMessagesRead = 2
    /\ entry.HasDelayedMsg
    /\ entry.DelayedMsgNr = 1

C15_ToInputUserWasms ==
    (entryCall.op = "toInput" /\ entryCall.before.Stage = "Ready") =>
        LET T == { entryCall.archs[i] : i \in 1..Len(entryCall.archs) }
            W == entryCall.before.UserWasms
            covered == \A h \in DOMAIN W : \A t \in T : t \in DOMAIN W[h]
            succeeds == DOMAIN W = {} \/ (T # {} /\ covered)
        IN  /\ (entryCall.err = "nil") <=> succeeds
            /\ entryCall.err # "nil" => entryCall.input = Nil
            /\ entryCall.err = "nil" =>
                  /\ DOMAIN entryCall.input.UserWasms = T
                  /\ \A t \in T :
                        /\ DOMAIN entryCall.input.UserWasms[t] = DOMAIN W
                        /\ \A h \in DOMAIN W :
                              entryCall.input.UserWasms[t][h] = W[h][t]
            /\ (T = {} /\ DOMAIN W # {}) =>
                  entryCall.err = "stylus support is required"

\* two programs, one of them without code for the second target asked for
C15_Witness ==
    /\ entryCall.op = "toInput"
    /\ entryCall.before.Stage = "Ready"
    /\ Len(entryCall.archs) = 2
    /\ Cardinality(DOMAIN entryCall.before.UserWasms) = 2
    /\ entryCall.err = "stylusArch not supported by block validator"

\* C16: every entry produced by newValidationEntry has BatchInfo[0].Number =
\* Start.Batch at every stage, BatchInfo being the containing batch
\* (fullBatchInfo.Number, fullBatchInfo.PostedData) followed by prevBatches in
\* their given order; construction fails, producing no entry, when
\* fullBatchInfo is absent or fullBatchInfo.Number # Start.Batch.
C16_BatchInfo ==
    /\ entry.Stage \in {"ReadyForRecord", "Ready"} =>
          /\ Len(entry.BatchInfo) >= 1
          /\ entry.BatchInfo[1].Number = entry.Start.Batch
    /\ entryCall.op = "new" =>
          /\ entryCall.err = "nil" =>
                /\ entry = entryCall.made
                /\ entry.Start = entryCall.start
                /\ entry.BatchInfo =
                      <<BatchInfo(entryCall.fullBatchInfo.Number,
                                  entryCall.fullBatchInfo.PostedData)>>
                      \o entryCall.prevBatches
          /\ ~EntryBatchAccepted =>
                /\ entryCall.err # "nil"
                /\ entryCall.made = NilEntry
                /\ entry = EmptyEntry
    /\ entryCall.op \in {"record", "toInput"} =>
          /\ entry.BatchInfo = entryCall.before.BatchInfo
          /\ entry.Start = entryCall.before.Start

\* an entry of batch 1 with two earlier batches became Ready
C16_Witness ==
    /\ entry.Stage = "Ready"
    /\ entry.Start.Batch = 1
    /\ Len(entry.BatchInfo) = 3
    /\ entry.BatchInfo[1] = BatchInfo(1, PostedData(1))
    /\ entry.BatchInfo[3] = BatchInfo(0, PostedData(0))

\* the targets named by a list
TargetSet(archs) == { archs[i] : i \in 1..Len(archs) }

\* C17: once an entry is Ready none of its fields changes:
\* ValidationEntryRecord rejects it without modifying it and ToInput,
\* successful or failing, leaves every field unchanged; so two ToInput calls
\* on a Ready entry with the same target set return equal inputs, or both
\* fail.
C17_ReadyEntryFrozen ==
    (entryCall.op \in {"record", "toInput"} /\ entryCall.before.Stage = "Ready") =>
        /\ entry = entryCall.before
        /\ entryCall.op = "record" =>
              entryCall.err = "validation entry should be ReadyForRecord"
        /\ (/\ entryCall.op = "toInput"
            /\ entryCall.prev # Nil
            /\ TargetSet(entryCall.archs) = TargetSet(entryCall.prev.archs)) =>
              /\ (entryCall.err = "nil") <=> (entryCall.prev.err = "nil")
              /\ entryCall.input = entryCall.prev.input

\* two successful conversions of an entry with user code, the targets given in
\* opposite orders
C17_Witness ==
    /\ entryCall.op = "toInput"
    /\ entryCall.before.Stage = "Ready"
    /\ entryCall.prev # Nil
    /\ entryCall.archs = <<"amd64", "arm64">>
    /\ entryCall.prev.archs = <<"arm64", "amd64">>
    /\ DOMAIN entry.UserWasms # {}
    /\ entryCall.err = "nil"
    /\ entryCall.input = entryCall.prev.input

\* what the entry holds in Preimages and UserWasms, read through its
\* references
EntryMapsView ==
    [Preimages |-> IF refs.pre = NilRef THEN EmptyMap
                   ELSE [k \in DOMAIN heap[refs.pre] |-> heap[heap[refs.pre][k]]],
     UserWasms |-> IF refs.wasms = NilRef THEN EmptyMap
                   ELSE [k \in DOMAIN heap[refs.wasms] |-> heap[heap[refs.wasms][k]]]]

\* C18 as stated: no map reachable from a ValidationInput returned by
\* ToInput, from the recorder's RecordResult or from the FullBatchInfo used at
\* construction is the same map object as the entry's Preimages or UserWasms,
\* so a write through any of those outside references does not change what
\* the entry holds.
C18_Original ==
    [][/\ OutsideMaps' \cap ({refs'.pre, refs'.wasms} \ {NilRef}) = {}
       /\ refs'.op = "write" => EntryMapsView' = EntryMapsView]_vars

\* the entry of a call that read msg and result from one chain holds that
\* chain's values in every field taken from the streamer
ReorgSnapshot ==
    \A i \in DOMAIN tasks :
        LET t == tasks[i]
        IN  (/\ t.entry # NilEntry
             /\ t.readFrom[1] = t.readFrom[2])
            => LET f == t.readFrom[1]
                   before == IF t.pos > 0 THEN StreamerDelayed(f, t.pos - 1) ELSE 0
               IN  /\ t.entry.End.BlockHash = StreamerHash(f, t.pos)
                   /\ t.entry.Start.BlockHash =
                         IF t.pos > 0 THEN StreamerHash(f, t.pos - 1) ELSE ZeroHash
                   /\ t.entry.HasDelayedMsg = (StreamerDelayed(f, t.pos) # before)

\* a call returns agreed = true only when the recorder, if asked, answered
\* the entry's End block hash and the run reported the entry's End
ReorgReported ==
    \A i \in DOMAIN tasks :
        LET t == tasks[i]
        IN  t.ret.agreed
            => /\ t.gsEnd = t.entry.End
               /\ t.ret.err = "nil"
               /\ t.pos # 0 => t.recHash = t.entry.End.BlockHash

\* C19 as stated: once a call has read msg and result from the streamer, a
\* reorg of the streamer afterwards, interleaved with the remaining steps of
\* the call or with other calls, does not change the entry's fields or break
\* its consistency, and a divergence from entry.End seen by the recorder or by
\* the spawner is reported: the call does not return agreed = true.
C19_Original == ReorgSnapshot /\ ReorgReported

\* the components in configured order: the Redis validator when there is
\* one, then the execution spawners
ConfiguredOrder ==
    (IF redisConfigured THEN <<Redis>> ELSE <<>>) \o [i \in 1..NumSpawners |-> i]

\* C20: Start starts the Redis validator, when configured, before any
\* execution spawner, then the spawners in configured order, and stops at the
\* first component whose start fails: nothing is started after a failure.
\* Stop stops every execution spawner and, after all of them, the Redis
\* validator when configured.
C20_StartStopOrder ==
    \A n \in 1..Len(life) :
        LET c == life[n]
            ev == c.events
        IN  /\ c.op = "Start" =>
                  /\ Len(ev) <= Len(ConfiguredOrder)
                  /\ \A k \in 1..Len(ev) : ev[k] = Event("Start", ConfiguredOrder[k])
                  /\ \A k \in 1..(Len(ev) - 1) : ev[k].backend \notin c.failing
                  /\ c.err = "nil" =>
                        /\ Len(ev) = Len(ConfiguredOrder)
                        /\ \A k \in 1..Len(ev) : ev[k].backend \notin c.failing
                  /\ c.err # "nil" =>
                        /\ Len(ev) >= 1
                        /\ ev[Len(ev)].backend \in c.failing
            /\ c.op = "Stop" =>
                  /\ \A k \in 1..Len(ev) : ev[k].op = "Stop"
                  /\ \A i \in Spawners :
                        \E k \in 1..Len(ev) :
                            /\ ev[k].backend = i
                            /\ \A j \in 1..Len(ev) : ev[j].backend = Redis => k < j
                  /\ redisConfigured <=> (\E k \in 1..Len(ev) : ev[k].backend = Redis)
                  /\ Len(ev) = NumSpawners + (IF redisConfigured THEN 1 ELSE 0)

\* a Start with a Redis validator that stopped at a failing first spawner,
\* followed by a Stop
C20_Witness ==
    /\ redisConfigured
    /\ Len(life) = 2
    /\ life[1].op = "Start"
    /\ life[1].err = "spawner"
    /\ life[1].events = <<Event("Start", Redis), Event("Start", 1)>>
    /\ life[2].op = "Stop"
    /\ Len(life[2].events) = NumSpawners + 1

\* a direct readFullBatch call has been made
BatchCalled == batchCall.op = "readFullBatch"

\* the call got past the tracker and the inbox reader
BatchPosted ==
    /\ BatchCalled
    /\ ~batchCall.countErr
    /\ GetBatchCount(batchCall.t) > batchCall.batchNum
    /\ ~GetBatchMessageCount(batchCall.t, batchCall.batchNum).err
    /\ batchCall.inbox.err = "nil"

\* the readers that are there and accept the header byte
BatchAccepting ==
    { k \in 1..Len(batchCall.dapReaders) :
        /\ batchCall.dapReaders[k] # Nil
        /\ batchCall.inbox.data.header \in batchCall.dapReaders[k].accepts }

\* the call consulted its readers and one of them accepts the header byte
BatchRecovers ==
    /\ BatchPosted
    /\ batchCall.inbox.data.len > 40
    /\ BatchAccepting # {}

\* the reader RecoverPayloadFromBatch is due on
BatchFirst == CHOOSE k \in BatchAccepting : \A j \in BatchAccepting : k <= j

\* the recovery failed with the sentinel on a DAS header byte
BatchLenient ==
    /\ BatchRecovers
    /\ batchCall.dapReaders[BatchFirst].err = "seqmsg"
    /\ batchCall.inbox.data.header = "das"

\* everything C21 says except the content of the preimage map after a
\* tolerated failure
BatchPolicy ==
    BatchCalled =>
    LET c == batchCall
        r == c.result
    IN  /\ (~c.countErr /\ GetBatchCount(c.t) <= c.batchNum) =>
              /\ ~r.found
              /\ r.err = "nil"
              /\ r.info = Nil
        /\ r.asked # <<>> => (BatchPosted /\ c.inbox.data.len > 40)
        /\ Len(r.recovered) <= 1
        /\ r.recovered # <<>> => (BatchRecovers /\ r.recovered = <<BatchFirst>>)
        /\ BatchRecovers =>
              LET rd == c.dapReaders[BatchFirst]
              IN  /\ r.recovered = <<BatchFirst>>
                  /\ rd.err = "nil" =>
                        /\ r.found
                        /\ r.err = "nil"
                        /\ r.info.Preimages =
                              IF rd.returned = "own" THEN ReaderOwnPreimages
                              ELSE rd.wrote
                  /\ BatchLenient => (r.found /\ r.err = "nil")
                  /\ (rd.err # "nil" /\ ~BatchLenient) =>
                        /\ ~r.found
                        /\ r.info = Nil
                        /\ r.err = rd.err
        /\ (BatchPosted /\ ~BatchRecovers) =>
              /\ r.found
              /\ r.err = "nil"
              /\ r.recovered = <<>>
              /\ r.info.Preimages = EmptyMap

\* C21 as stated: after a recovery that failed with the sentinel on a DAS
\* header byte, readFullBatch returns found = true with the preimage map left
\* empty; the rest as in C21.
C21_Original ==
    /\ BatchPolicy
    /\ BatchLenient => batchCall.result.info.Preimages = EmptyMap

\* C21: readFullBatch returns found = false without an error when the
\* tracker's batch count is <= batchNum; it consults the readers only when
\* len(postedData) > 40; it calls RecoverPayloadFromBatch on at most one
\* reader, the first in configured order that is there and accepts the header
\* byte; on success the map the reader returned becomes the batch's
\* preimages; after a failure with the sentinel on a DAS header byte it
\* returns found = true with the map it handed to the reader, which holds
\* what the reader recorded into it before failing and is empty only if the
\* reader recorded nothing; any other recovery error is returned; with no
\* accepting reader it returns found = true with an empty map.
C21_Recovery ==
    /\ BatchPolicy
    /\ BatchLenient =>
          batchCall.result.info.Preimages = batchCall.dapReaders[BatchFirst].wrote

\* a failed recovery on a DAS header byte, tolerated, by the second reader,
\* which had recorded the keyset into the map
C21_Witness ==
    /\ BatchLenient
    /\ BatchFirst = 2
    /\ batchCall.dapReaders[2].wrote = KeysetPreimages
    /\ batchCall.result.found
    /\ batchCall.result.recovered = <<2>>

\* a preimage map read through its reference: type -> (hash -> bytes)
MapView(h, r) == [ty \in DOMAIN h[r] |-> h[h[r][ty]]]

\* its (type, hash) keys
MapPairs(m) == UNION { { <<ty, hash>> : hash \in DOMAIN m[ty] } : ty \in DOMAIN m }

\* C22: copyPreimagesInto(dest, source) is a deep union keyed by (type, hash):
\* afterwards dest holds every (type, hash) of source with source's value,
\* every (type, hash) of dest that is not in source with its earlier value, and
\* nothing else; source is unchanged; merging a map into itself leaves it as
\* it was, and merging the same source a second time leaves dest as after the
\* first merge.  The recorder's preimages are merged into the entry under the
\* keccak256 type only.
C22_DeepUnion ==
    LET c == mergeCall
    IN  /\ c.op = "copy" =>
              LET destBefore == MapView(c.before, c.dest)
                  sourceBefore == MapView(c.before, c.source)
                  destAfter == MapView(heap, c.dest)
                  sourceAfter == MapView(heap, c.source)
              IN  /\ MapPairs(destAfter) = MapPairs(destBefore) \cup MapPairs(sourceBefore)
                  /\ \A p \in MapPairs(sourceBefore) :
                        destAfter[p[1]][p[2]] = sourceBefore[p[1]][p[2]]
                  /\ \A p \in MapPairs(destBefore) \ MapPairs(sourceBefore) :
                        destAfter[p[1]][p[2]] = destBefore[p[1]][p[2]]
                  /\ sourceAfter = sourceBefore
                  /\ c.dest = c.source => heap = c.before
                  /\ c.merges = 2 => destAfter = MapView(c.first, c.dest)
        /\ c.op = "record" =>
              LET destBefore == MapView(c.before, c.dest)
                  destAfter == MapView(heap, c.dest)
                  recorded == { <<Keccak256PreimageType, hash>> : hash \in DOMAIN c.rec }
              IN  /\ MapPairs(destAfter) = MapPairs(destBefore) \cup recorded
                  /\ \A p \in recorded : destAfter[p[1]][p[2]] = c.rec[p[2]]
                  /\ \A p \in MapPairs(destBefore) \ recorded :
                        destAfter[p[1]][p[2]] = destBefore[p[1]][p[2]]

\* a second merge of a source that overwrote one of dest's values, added a
\* hash and a type, and left one of dest's hashes alone
C22_Witness ==
    /\ mergeCall.op = "copy"
    /\ mergeCall.merges = 2
    /\ mergeCall.dest # mergeCall.source
    /\ LET made == MapView(mergeCall.made, mergeCall.dest)
           s == MapView(heap, mergeCall.source)
           d == MapView(heap, mergeCall.dest)
       IN  /\ DOMAIN made = {"das"}
           /\ DOMAIN made["das"] = {"p1", "p2"}
           /\ DOMAIN s = {Keccak256PreimageType, "das"}
           /\ DOMAIN s["das"] = {"p1"}
           /\ DOMAIN s[Keccak256PreimageType] = {"p2"}
           /\ made["das"]["p1"] # s["das"]["p1"]
           /\ d["das"]["p1"] = s["das"]["p1"]
           /\ d["das"]["p2"] = made["das"]["p2"]

(***************************************************************************)
(* Properties of ValidateResult.                                           *)
(***************************************************************************)
\* the events of the log with the given op
EventsOf(op) == { i \in 1..Len(calls) : calls[i].op = op }

\* the steps of the call, in the order taken
StepNames == {"streamer", "positions", "batch", "new", "record", "dispatch", "Await"}
StepOrder == <<"streamer", "positions", "batch", "new", "record", "dispatch", "Await">>
StepsTaken == SelectSeq(calls, LAMBDA ev : ev.op \in StepNames)

Launched == run # NoRun

\* the recorder answered with a block hash other than the entry's
RecorderMismatch ==
    /\ recording.invoked
    /\ recording.err = "nil"
    /\ recording.BlockHash # entry.End.BlockHash

\* the run reported a state other than the entry's
SpawnerMismatch ==
    /\ Launched
    /\ pc = "done"
    /\ awaited.gs # entry.End

\* C1: for every call that launched a run, ValidateResult returns
\* (true, entry.End, nil) if and only if Await returned no error and the
\* awaited state equals entry.End in all four fields; in every other case it
\* returns (false, gsEnd, err) with the awaited state and the await error, so
\* a differing state with no await error yields (false, gsEnd, nil).
C1_ReturnOfLaunchedCall ==
    (pc = "done" /\ Launched) =>
        LET same == /\ awaited.gs.BlockHash = entry.End.BlockHash
                    /\ awaited.gs.SendRoot = entry.End.SendRoot
                    /\ awaited.gs.Batch = entry.End.Batch
                    /\ awaited.gs.PosInBatch = entry.End.PosInBatch
            agree == awaited.err = "nil" /\ same
        IN  /\ (ret = Return(TRUE, entry.End, "nil")) <=> agree
            /\ ret.agreed <=> agree
            /\ ~agree => ret = Return(FALSE, awaited.gs, awaited.err)
            /\ (awaited.err = "nil" /\ ~same) => ret = Return(FALSE, awaited.gs, "nil")

\* the run reported another block hash and Await returned no error
C1_Witness ==
    /\ pc = "done"
    /\ Launched
    /\ awaited.err = "nil"
    /\ awaited.gs.BlockHash # entry.End.BlockHash
    /\ ret = Return(FALSE, awaited.gs, "nil")

\* C2: every entry with pos # 0 at stage Ready was cross-checked by the
\* recorder: RecordBlockCreation(pos, msg) was invoked and its block hash
\* equals entry.End.BlockHash; if the recorder fails or its hash differs,
\* the recording fails, the entry is not Ready and no input is built from it.
C2_RecorderCrossCheck ==
    /\ (entry.Stage = "Ready" /\ entry.Pos # 0) =>
          /\ recording.invoked
          /\ recording.pos = entry.Pos
          /\ recording.msg = local.msg
          /\ recording.err = "nil"
          /\ recording.BlockHash = entry.End.BlockHash
    /\ (recording.invoked /\ (recording.err # "nil" \/ RecorderMismatch)) =>
          /\ entry.Stage # "Ready"
          /\ pc = "done"
          /\ ~ret.agreed /\ ret.err # "nil"
          /\ ~Launched
          /\ EventsOf("ToInput") = {} /\ EventsOf("Launch") = {}
    /\ (EventsOf("ToInput") # {} /\ entry.Pos # 0) =>
          (recording.invoked /\ recording.BlockHash = entry.End.BlockHash)

\* an entry of a message other than the first became Ready
C2_Witness ==
    /\ entry.Stage = "Ready"
    /\ entry.Pos # 0
    /\ recording.invoked
    /\ pc = "dispatch"

\* the backend the selection rule names for the answers of the dispatch step
ExpectedBackend ==
    IF ~args.useExec /\ redisConfigured /\ Redis \in dispatch.sup
    THEN Redis
    ELSE IF dispatch.sup \cap Spawners = {} THEN NoRun
    ELSE CHOOSE i \in dispatch.sup \cap Spawners :
            \A j \in dispatch.sup \cap Spawners : i <= j

\* C3: a call launches at most one run; the backend is the Redis validator if
\* useExec is false, Redis is configured and supports the module root, and
\* otherwise the lowest-index spawner that supports it; with useExec the Redis
\* validator is never used; if the entry cannot be converted for the chosen
\* backend the call fails with no launch and no other backend tried; if no
\* backend supports the module root the call fails with "not supported by
\* node" and nothing is launched.
C3_BackendSelection ==
    /\ Cardinality(EventsOf("Launch")) <= 1
    /\ \A i \in EventsOf("Launch") : calls[i].backend = run
    /\ Launched => EventsOf("Launch") # {}
    /\ (args.useExec \/ ~redisConfigured) =>
          \A i \in 1..Len(calls) : calls[i].backend # Redis
    /\ dispatch.asked =>
          LET b == ExpectedBackend
          IN  IF b = NoRun
              THEN /\ ~Launched
                   /\ pc = "done"
                   /\ ret = Return(FALSE, Nil, "not supported by node")
                   /\ EventsOf("ToInput") = {} /\ EventsOf("Launch") = {}
              ELSE IF ToInput(entry, dispatch.archs[b]).err # "nil"
              THEN /\ ~Launched
                   /\ pc = "done"
                   /\ ret = Return(FALSE, Nil, ToInput(entry, dispatch.archs[b]).err)
                   /\ EventsOf("Launch") = {}
                   /\ Cardinality(EventsOf("ToInput")) = 1
                   /\ \A i \in EventsOf("ToInput") : calls[i].backend = b
              ELSE /\ run = b
                   /\ pc = "await"
                   /\ Cardinality(EventsOf("ToInput")) = 1
                   /\ \A i \in EventsOf("ToInput") : calls[i].backend = b

\* Redis is configured and allowed but does not support the module root, the
\* first spawner does not either, and the second is launched
C3_Witness ==
    /\ dispatch.asked
    /\ ~args.useExec
    /\ redisConfigured
    /\ dispatch.sup = {NumSpawners}
    /\ run = NumSpawners
    /\ NumSpawners > 1

\* C4: every run launched by the call is cancelled before the call returns,
\* on every exit path after the launch (agreement, disagreement, await
\* error), and Cancel is only invoked on the run this call launched.
C4_CancelOnEveryExit ==
    /\ (pc = "done" /\ Launched) =>
          /\ Cardinality(EventsOf("Cancel")) = 1
          /\ calls[Len(calls)] = Event("Cancel", run)
    /\ \A i \in EventsOf("Cancel") :
          /\ calls[i].backend = run
          /\ \E j \in EventsOf("Launch") : j < i /\ calls[j].backend = calls[i].backend

\* the await failed and the run was cancelled
C4_Witness ==
    /\ pc = "done"
    /\ Launched
    /\ awaited.err # "nil"
    /\ calls[Len(calls)] = Event("Cancel", run)

\* C5: the steps of a call occur in the order streamer read, position
\* computation, batch assembly, entry construction, recording, dispatch,
\* await; no Launch happens before the entry is Ready; a failing step ends
\* the call with no later step; ToInput refuses an entry that is not Ready.
C5_StepOrder ==
    /\ Len(StepsTaken) <= Len(StepOrder)
    /\ \A i \in 1..Len(StepsTaken) : StepsTaken[i].op = StepOrder[i]
    /\ \A i \in EventsOf("Launch") :
          /\ entry.Stage = "Ready"
          /\ \E j \in EventsOf("record") : j < i
          /\ \E j \in EventsOf("positions") : \E k \in EventsOf("batch") : j < k /\ k < i
    /\ (pc = "done" /\ ~Launched) =>
          /\ ret.err # "nil" /\ ~ret.agreed /\ ret.gs = Nil
          /\ EventsOf("Await") = {} /\ EventsOf("Launch") = {}
    /\ (pc \notin {"idle", "done"}) =>
          (ret = NoReturn /\ Len(StepsTaken) < Len(StepOrder)
           /\ StepOrder[Len(StepsTaken) + 1] = (IF pc = "await" THEN "Await" ELSE pc))
    /\ (probe # Nil /\ probe.stage # "Ready") =>
          /\ probe.input = Nil
          /\ probe.err = "cannot create input from non-ready entry"

\* a call that went through every step
C5_Witness ==
    /\ pc = "done"
    /\ Len(StepsTaken) = Len(StepOrder)
    /\ ret.agreed

\* C6 as stated: a disagreement detected inside ValidateResult, a recorder
\* block-hash mismatch or a spawner post-state mismatch, is returned as
\* (false, observed, err) carrying the observed global state.
C6_Original ==
    (pc = "done" /\ (RecorderMismatch \/ SpawnerMismatch)) =>
        (~ret.agreed /\ ret.gs # Nil)

\* C6 amended: a spawner post-state mismatch is returned as (false, gsEnd,
\* err) carrying the awaited state; a recorder block-hash mismatch is returned
\* as (false, nil, err) with an error and no global state.
C6_Disagreement ==
    pc = "done" =>
        /\ SpawnerMismatch => ret = Return(FALSE, awaited.gs, awaited.err)
        /\ RecorderMismatch =>
              /\ ~ret.agreed
              /\ ret.gs = Nil
              /\ ret.err = "recording failed: hash"

\* the recorder's block hash differed and the call returned without a state
C6_Witness ==
    /\ pc = "done"
    /\ RecorderMismatch
    /\ ret.gs = Nil

\* the positions of message pos as the tracker's counts give them
EntryPositionsMatch ==
    LET b == entry.Start.Batch
    IN  /\ b \in ContainingBatches(tracker, entry.Pos)
        /\ entry.Start.PosInBatch = entry.Pos - FirstInBatch(tracker, b)
        /\ IF entry.Pos + 1 = MsgCountInBatch(tracker, b)
           THEN entry.End.Batch = b + 1 /\ entry.End.PosInBatch = 0
           ELSE entry.End.Batch = b /\ entry.End.PosInBatch = entry.Start.PosInBatch + 1

\* C8 as stated: every entry CreateReadyValidationEntry builds, for every pos
\* including 0 and every tracker, has Start.Batch the batch containing pos,
\* Start.PosInBatch = pos - firstInBatch, and End the post-state position.
C8_Original ==
    entry # NilEntry => EntryPositionsMatch

\* C8 amended: the same for every pos >= 1, and for pos = 0 when batch 0 of
\* the tracker holds exactly one message.
C8_EntryPositions ==
    (entry # NilEntry /\ (entry.Pos >= 1 \/ tracker.counts[1] = 1))
        => EntryPositionsMatch

\* the entry of the last message of a batch that is not its first message
C8_Witness ==
    /\ entry # NilEntry
    /\ entry.Stage = "Ready"
    /\ entry.Pos >= 1
    /\ entry.Start.PosInBatch >= 1
    /\ entry.End.Batch = entry.Start.Batch + 1

=============================================================================
